---- MODULE Spec2Model ----
(***************************************************************************)
(* A model of the Progress Tracker's persistence layer                     *)
(* (models/database.py, class DatabaseManager), of the parts of the intern *)
(* and mentor dashboards (components/intern_dashboard.py,                  *)
(* components/mentor_dashboard.py) that read and write it, of the network  *)
(* test of utils/network.py and of the seeding script utils/seed_tasks.py. *)
(*                                                                         *)
(* The progress collection is kept as one sequence of documents per        *)
(* (task_id, user_email) key, in insertion order: find_one with a          *)
(* {task_id, user_email} filter returns the first matching document in     *)
(* natural order, which is the head of that sequence, and update_one by    *)
(* _id rewrites the document it was given.  Time stamps written by         *)
(* datetime.now() are kept as the value Now; a field a document does not   *)
(* have reads as None, as dict.get does.                                   *)
(***************************************************************************)
EXTENDS Integers, Sequences, FiniteSets, TLC

\* ------------------------------------------------------------------ bounds
\* Number of store operations (API calls, dashboard runs) in one behaviour.
MaxOps == 3

\* ------------------------------------------------------------- identifiers
None == "None"
Now == "now"
\* A value that may be missing (a document find_one did not find) is a
\* sequence of length at most one: <<>> is Python's None.
Nothing == <<>>
Some(x) == <<x>>
\* links=None, and a task document without a prerequisites field: sequences
\* no list of links or of task ids equals.
NoLinks == <<None>>
Absent == <<"absent">>

TaskIds == {"t1", "t2", "t3"}
\* app.py logs every intern in as intern@example.com; u2 is a second user of
\* the store interface.
InternEmail == "intern@example.com"
Users == {InternEmail, "u2"}
\* update_task_progress takes any two strings: the dashboard passes the email
\* where the task id belongs, so both kinds of id occur in both fields.
Keys == (TaskIds \X Users) \cup (Users \X TaskIds)

Statuses == {"not_started", "in_progress", "done"}
\* The (notes, links) arguments the calls are made with: both left out by
\* every user, each given alone by the intern.
NoteLinkInputs(user_email) ==
    IF user_email = InternEmail
    THEN {<<None, NoLinks>>, <<"n1", NoLinks>>, <<None, <<"l1">>>>}
    ELSE {<<None, NoLinks>>}

\* Requests served at the same time (one thread per session script run).
Procs == {"r1", "r2"}

\* Browser sessions on the intern dashboard, all served by one process.
Sessions == {"s1", "s2"}
\* Number of script runs and store calls in one behaviour of the dashboard.
MaxRuns == 4
\* The last clock value a behaviour reaches.
MaxClock == 1
CacheKeys == {InternEmail} \X (0..MaxClock)

VARIABLES
    tasks,      \* db.tasks: sequence of task documents, natural order
    progress,   \* db.progress: Keys -> sequence of progress documents
    ret,        \* what the last update_task_progress call returned
    ops,        \* number of operations performed
    calls,      \* update_task_progress calls in flight, one per request
    exec,       \* a DatabaseManager method call and its _execute_db_operation:
                \* `history` is how each attempt of operation() ended,
                \* `store` how each store round trip did
    users,      \* db.users: sequence of user documents, natural order
    leaderboard, \* the last get_leaderboard call: what it read and returned
    attendance, \* db.attendance: sequence of attendance documents
    clock,      \* int(time.time()), in seconds since the behaviour began
    sessions,   \* st.session_state of each browser session, and what its
                \* last script run bound to `tasks` and `performance`
    lru_tasks,  \* the lru_cache of cached_get_user_tasks
    lru_perf,   \* the lru_cache of cached_get_performance_metrics
    ran,        \* the session whose script run was the last step, if any
    network,    \* the stored allow-list and the network the host observes
    verdict,    \* what the last is_on_allowed_network call returned, if any
    creating,   \* create_user calls in flight, one per request
    measured,   \* what the last get_performance_metrics call computed, if any
    task_categories, \* db.task_categories: sequence of category documents
    network_config  \* db.allowed_networks: the network_config document, if any

boardVars == <<users, leaderboard>>
dashVars == <<attendance, clock, sessions, lru_tasks, lru_perf, ran>>
netVars == <<network, verdict>>
collVars == <<task_categories, network_config>>
auxVars == <<netVars, creating, measured, collVars>>
vars == <<tasks, progress, ret, ops, calls, exec, users, leaderboard,
          attendance, clock, sessions, lru_tasks, lru_perf, ran,
          network, verdict, creating, measured,
          task_categories, network_config>>

\* ------------------------------------------------------------------- tasks
\* The task documents the behaviours start from: t1 has no prerequisites
\* field, t2 an empty list, t3 lists t1 and t2.
TaskStores ==
    { << [_id |-> "t1", prerequisites |-> p1],
         [_id |-> "t2", prerequisites |-> p2],
         [_id |-> "t3", prerequisites |-> p3] >> :
        p1 \in {Absent},
        p2 \in {<<>>},
        p3 \in {<<"t1", "t2">>} }

\* db.tasks.find_one({"_id": ObjectId(task_id)}): the document, if any.
find_task(task_id) ==
    IF \E i \in 1..Len(tasks) : tasks[i]._id = task_id
    THEN Some(tasks[CHOOSE i \in 1..Len(tasks) : tasks[i]._id = task_id])
    ELSE Nothing

\* ---------------------------------------------------------------- progress
\* db.progress.find_one({"task_id": ..., "user_email": ...}) on a store p.
find_one(p, task_id, user_email) ==
    IF /\ <<task_id, user_email>> \in DOMAIN p
       /\ Len(p[<<task_id, user_email>>]) > 0
    THEN Some(Head(p[<<task_id, user_email>>]))
    ELSE Nothing

\* The progress a task carries when the user has no document for it.
DefaultProgress ==
    [status |-> "not_started", completion_date |-> None,
     notes |-> "", links |-> <<>>]

\* The document update_one leaves behind: $set of update_data on the stored
\* document `current`; update_data was built from `existing`, the document
\* the call's find_one returned.
UpdatedDocKeepNotes(current, existing, status, notes, links) ==
    [status |-> status,
     completion_date |->
        IF status = "done" /\ existing.status # "done"
        THEN Now ELSE current.completion_date,
     notes |-> current.notes,
     links |-> IF links # NoLinks THEN links ELSE current.links]

UpdatedDoc(current, existing, status, notes, links) ==
    [status |-> status,
     completion_date |->
        IF status = "done" /\ existing.status # "done"
        THEN Now ELSE current.completion_date,
     notes |-> IF notes # None THEN notes ELSE current.notes,
     links |-> IF links # NoLinks THEN links ELSE current.links]

\* The document insert_one stores for progress_data.
NewDoc(status, notes, links) ==
    [status |-> status,
     completion_date |-> IF status = "done" THEN Now ELSE None,
     notes |-> IF notes # None THEN notes ELSE "",
     links |-> IF links # NoLinks THEN links ELSE <<>>]

\* The write of update_task_progress's operation() on store p: update_one
\* on the _id of the document its find_one returned (the head of the key's
\* documents: nothing deletes or reorders them), or insert_one.
WriteProgress(p, existing, task_id, user_email, status, notes, links) ==
    LET k == <<task_id, user_email>> IN
    IF existing # Nothing
    THEN [p EXCEPT ![k] =
            <<UpdatedDoc(Head(p[k]), existing[1], status, notes, links)>>
            \o Tail(p[k])]
    ELSE [p EXCEPT ![k] = Append(p[k], NewDoc(status, notes, links))]

\* ------------------------------------------------------------ can_start_task
RECURSIVE AllPrereqsDone(_, _, _)
AllPrereqsDone(p, prereqs, user_email) ==
    IF prereqs = <<>> THEN TRUE
    ELSE LET doc == find_one(p, Head(prereqs), user_email) IN
         IF doc = Nothing THEN FALSE
         ELSE IF doc[1].status # "done" THEN FALSE
         ELSE AllPrereqsDone(p, Tail(prereqs), user_email)

RECURSIVE AllPrereqsDoneSkipMissing(_, _, _)
AllPrereqsDoneSkipMissing(p, prereqs, user_email) ==
    IF prereqs = <<>> THEN TRUE
    ELSE LET doc == find_one(p, Head(prereqs), user_email) IN
         IF doc = Nothing
         THEN AllPrereqsDoneSkipMissing(p, Tail(prereqs), user_email)
         ELSE IF doc[1].status # "done" THEN FALSE
         ELSE AllPrereqsDoneSkipMissing(p, Tail(prereqs), user_email)

can_start_task_skip_missing(p, task_id, user_email) ==
    LET task == find_task(task_id) IN
    IF task = Nothing THEN FALSE
    ELSE IF task[1].prerequisites = Absent THEN TRUE
    ELSE IF task[1].prerequisites = <<>> THEN TRUE
    ELSE AllPrereqsDoneSkipMissing(p, task[1].prerequisites, user_email)

can_start_task(p, task_id, user_email) ==
    LET task == find_task(task_id) IN
    IF task = Nothing THEN FALSE
    ELSE IF task[1].prerequisites = Absent THEN TRUE
    ELSE IF task[1].prerequisites = <<>> THEN TRUE
    ELSE AllPrereqsDone(p, task[1].prerequisites, user_email)

\* ------------------------------------------------------------ get_user_tasks
\* One entry per task document, in the order of db.tasks.find().
get_user_tasks(p, user_email) ==
    [i \in 1..Len(tasks) |->
        LET doc == find_one(p, tasks[i]._id, user_email) IN
        [_id |-> tasks[i]._id,
         progress |-> IF doc # Nothing THEN doc[1] ELSE DefaultProgress,
         can_start |-> can_start_task(p, tasks[i]._id, user_email)]]

\* The entries get_user_tasks reports for a task id.
ReportedTasks(p, user_email, task_id) ==
    LET ts == get_user_tasks(p, user_email) IN
    { ts[i] : i \in { j \in 1..Len(ts) : ts[j]._id = task_id } }

\* ------------------------------------------------------------------ actions
EmptyProgress == [k \in Keys |-> <<>>]

IdleCall == [pc |-> "idle", task_id |-> None, user_email |-> None,
             status |-> None, existing |-> Nothing]
NoCalls == [c \in Procs |-> IdleCall]

IdleExec == [pc |-> "idle", method |-> None, attempt |-> 0,
             history |-> <<>>, store |-> <<>>, result |-> None]

NotCalled == [called |-> FALSE, interns |-> <<>>, entries |-> <<>>]

\* The multiselect "Filter by Status" and its default.
FilterOptions == {"Not Started", "In Progress", "Done"}
DefaultFilter == {"Not Started", "In Progress"}

\* A session before its first script run: nothing in st.session_state.
NewSession ==
    [cache_time |-> Nothing,
     data_loaded |-> [performance |-> Nothing, today_attendance |-> Nothing],
     task_status |-> DefaultFilter,
     network_status |-> Nothing,
     tasks |-> <<>>,
     performance |-> Nothing]

\* ----------------------------------------------------------- network texts
\* An IP address as text is a sequence of characters.  Addresses have two
\* parts of one base-4 digit each ("a.b", four bits in all), which keeps the
\* text, the prefix and the CIDR arithmetic of real addresses.
Digits == <<"0", "1", "2", "3">>
AddressBits == 4
UnknownIp == <<"Unknown">>
Ip(a, b) == <<Digits[a + 1], ".", Digits[b + 1]>>
IsDigit(ch) == \E i \in 1..Len(Digits) : Digits[i] = ch
DigitValue(ch) == (CHOOSE i \in 1..Len(Digits) : Digits[i] = ch) - 1

\* An allow-list dictionary: the keys it has and the list under each.
AllowList(keys, ssid, ip_exact, ip_ranges, ip_cidr) ==
    [keys |-> keys, ssid |-> ssid, ip_exact |-> ip_exact,
     ip_ranges |-> ip_ranges, ip_cidr |-> ip_cidr]
\* None, or {}.
NoAllowList == AllowList({}, <<>>, <<>>, <<>>, <<>>)
\* dict.get(key, [])
ListOf(allowed_networks, key) ==
    IF key \in allowed_networks.keys
    THEN (CASE key = "ssid" -> allowed_networks.ssid
            [] key = "ip_exact" -> allowed_networks.ip_exact
            [] key = "ip_ranges" -> allowed_networks.ip_ranges
            [] key = "ip_cidr" -> allowed_networks.ip_cidr)
    ELSE <<>>

NetworkIdle ==
    /\ network = [allowed_networks |-> NoAllowList,
                  info |-> [ip |-> UnknownIp, ssid |-> None]]
    /\ verdict = Nothing

\* A request that is not inside create_user.
NoCreate == [pc |-> "idle", email |-> None, name |-> None, result |-> Nothing]

CollIdle ==
    /\ task_categories = <<>>
    /\ network_config = Nothing

AuxIdle ==
    /\ NetworkIdle
    /\ creating = [c \in Procs |-> NoCreate]
    /\ measured = Nothing
    /\ CollIdle

DashIdle ==
    /\ attendance = <<>>
    /\ clock = 0
    /\ sessions = [s \in Sessions |-> NewSession]
    /\ lru_tasks = [k \in CacheKeys |-> Nothing]
    /\ lru_perf = [k \in CacheKeys |-> Nothing]
    /\ ran = None

Init ==
    /\ tasks \in TaskStores
    /\ progress = EmptyProgress
    /\ ret = FALSE
    /\ ops = 0
    /\ calls = NoCalls
    /\ exec = IdleExec
    /\ users = <<>>
    /\ leaderboard = NotCalled
    /\ DashIdle
    /\ AuxIdle

\* modified_count > 0: the $set always carries a fresh last_updated, so the
\* document changes unless the stored value has the same millisecond and
\* nothing else differs.
ModifiedResults(before, after) ==
    IF before # after THEN {TRUE} ELSE {TRUE, FALSE}

\* update_task_progress(task_id, user_email, status, notes, links), run to
\* completion on a healthy store.
update_task_progress(task_id, user_email, status, notes, links) ==
    LET existing == find_one(progress, task_id, user_email)
        after == WriteProgress(progress, existing, task_id, user_email,
                               status, notes, links)
    IN
    /\ ops < MaxOps
    /\ progress' = after
    /\ ret' \in (IF existing = Nothing THEN {TRUE}
                 ELSE ModifiedResults(progress, after))
    /\ ops' = ops + 1
    /\ ran' = None
    /\ UNCHANGED <<tasks, calls, exec, boardVars, auxVars,
                   attendance, clock, sessions, lru_tasks, lru_perf>>

ApiUpdate ==
    \E t \in TaskIds, u \in Users, s \in Statuses :
        \E nl \in NoteLinkInputs(u) :
            update_task_progress(t, u, s, nl[1], nl[2])

Next == ApiUpdate

Spec == Init /\ [][Next]_vars

\* ------------------------------------------------- concurrent requests
\* update_task_progress as its two store round trips: the find_one of
\* request c, and later its insert_one or update_one.  The calls carry no
\* notes and no links.
ConcTaskIds == {"t1", "t2"}

FindExisting(c, task_id, user_email, status) ==
    /\ calls[c].pc = "idle"
    /\ ops < MaxOps
    /\ calls' = [calls EXCEPT ![c] =
                    [pc |-> "found", task_id |-> task_id,
                     user_email |-> user_email, status |-> status,
                     existing |-> find_one(progress, task_id, user_email)]]
    /\ ops' = ops + 1
    /\ UNCHANGED <<tasks, progress, ret, exec, boardVars, auxVars, dashVars>>

WriteBack(c) ==
    LET call == calls[c]
        after == WriteProgress(progress, call.existing, call.task_id,
                               call.user_email, call.status, None, NoLinks)
    IN
    /\ call.pc = "found"
    /\ progress' = after
    /\ ret' \in (IF call.existing = Nothing THEN {TRUE}
                 ELSE ModifiedResults(progress, after))
    /\ calls' = [calls EXCEPT ![c] = IdleCall]
    /\ UNCHANGED <<tasks, ops, exec, boardVars, auxVars, dashVars>>

NextConc ==
    \/ \E c \in Procs, t \in ConcTaskIds, s \in Statuses :
            FindExisting(c, t, InternEmail, s)
    \/ \E c \in Procs : WriteBack(c)

SpecConc == Init /\ [][NextConc]_vars

\* ---------------------------------------------- _execute_db_operation
max_retries == 3

ConnectivityErrors == {"ConnectionFailure", "NetworkTimeout"}
\* What one store round trip does: it answers, or pymongo raises.
StoreOutcomes == {"ok"} \cup ConnectivityErrors \cup {"OperationFailure"}

\* The public methods by the way they guard their store calls.
\* operation() raises what the store raises; the method wraps
\* _execute_db_operation(operation) in try/except Exception.
RetriedMethods ==
    {"get_user_tasks", "update_task_progress", "get_task_dependencies",
     "get_allowed_networks", "update_allowed_networks", "create_user",
     "get_performance_metrics", "get_leaderboard"}
\* operation() itself is one try/except Exception returning a default, so
\* _execute_db_operation never sees an exception.
InnerCaughtMethods ==
    {"log_attendance", "get_today_attendance", "get_attendance_stats",
     "get_attendance_history", "get_task_categories", "add_task_category",
     "update_task_category", "delete_task_category"}
\* One try/except Exception around the store calls, no retry.
CaughtMethods ==
    {"can_start_task", "add_allowed_network", "remove_allowed_network",
     "add_chat_room", "get_chat_rooms", "add_chat_message",
     "get_chat_messages", "get_direct_chat_messages", "add_direct_message",
     "get_users", "import_interns_from_csv"}
\* No try at all.
UnguardedMethods == {"get_user_name"}

PublicMethods ==
    RetriedMethods \cup InnerCaughtMethods \cup CaughtMethods
        \cup UnguardedMethods

UsesExecute(method) == method \in RetriedMethods \cup InnerCaughtMethods

\* What operation_func() does when its store round trip ends with o.
OperationOutcome(method, o) ==
    IF method \in InnerCaughtMethods /\ o # "ok" THEN "inner_default" ELSE o

\* Line 64: another attempt follows a connectivity error.
ShouldRetryOneMore(attempt) == attempt < max_retries

ShouldRetry(attempt) == attempt < max_retries - 1

\* A caller invokes a public method.
BeginCall(method) ==
    /\ exec.pc = "idle"
    /\ exec' = [IdleExec EXCEPT !.pc = "running", !.method = method]
    /\ UNCHANGED <<tasks, progress, ret, ops, calls, boardVars, auxVars, dashVars>>

\* One pass of the loop `for attempt in range(max_retries)` for a method that
\* goes through _execute_db_operation, the store answering with o.
Attempt(o) ==
    LET out == OperationOutcome(exec.method, o)
        hist == Append(exec.history, out)
    IN
    /\ exec.pc = "running"
    /\ UsesExecute(exec.method)
    /\ exec.attempt < max_retries
    /\ exec' =
         IF out \notin ConnectivityErrors /\ out # "OperationFailure"
         THEN [exec EXCEPT !.pc = "returned", !.history = hist,
                           !.store = Append(@, o), !.result = out]
         ELSE IF out \in ConnectivityErrors /\ ShouldRetry(exec.attempt)
         THEN IF exec.attempt + 1 < max_retries
              THEN [exec EXCEPT !.attempt = @ + 1, !.history = hist,
                                !.store = Append(@, o)]
              ELSE [exec EXCEPT !.pc = "raised", !.attempt = @ + 1,
                                !.history = hist, !.store = Append(@, o),
                                !.result = "Exception"]
         ELSE [exec EXCEPT !.pc = "raised", !.history = hist,
                           !.store = Append(@, o), !.result = out]
    /\ UNCHANGED <<tasks, progress, ret, ops, calls, boardVars, auxVars, dashVars>>

\* The store call of a method that does not use _execute_db_operation.
DirectCall(o) ==
    /\ exec.pc = "running"
    /\ ~UsesExecute(exec.method)
    /\ exec' = [exec EXCEPT !.pc = IF o = "ok" THEN "returned" ELSE "raised",
                            !.history = <<o>>, !.store = <<o>>,
                            !.result = o]
    /\ UNCHANGED <<tasks, progress, ret, ops, calls, boardVars, auxVars, dashVars>>

\* The method's own except clause, and what reaches its caller:
\* "value" (the operation's result), "default" or "exception".
Finish ==
    /\ exec.pc \in {"returned", "raised"}
    /\ exec' =
         [exec EXCEPT
            !.pc = "done",
            !.result =
                IF exec.pc = "returned"
                THEN (IF exec.result = "inner_default"
                      THEN "default" ELSE "value")
                ELSE IF exec.method \in UnguardedMethods
                THEN "exception" ELSE "default"]
    /\ UNCHANGED <<tasks, progress, ret, ops, calls, boardVars, auxVars, dashVars>>

\* The caller goes on to another call.
Forget ==
    /\ exec.pc = "done"
    /\ exec' = IdleExec
    /\ UNCHANGED <<tasks, progress, ret, ops, calls, boardVars, auxVars, dashVars>>

NextRetry ==
    \/ \E m \in PublicMethods : BeginCall(m)
    \/ \E o \in StoreOutcomes : Attempt(o)
    \/ \E o \in StoreOutcomes : DirectCall(o)
    \/ Finish
    \/ Forget

SpecRetry == Init /\ [][NextRetry]_vars

\* An attempt in progress returns or raises (the driver's timeouts), and the
\* loop goes on to the next one.
SpecRetryFair ==
    /\ SpecRetry
    /\ WF_vars(\E o \in StoreOutcomes : Attempt(o))
    /\ WF_vars(\E o \in StoreOutcomes : DirectCall(o))

\* ------------------------------------------------------- get_leaderboard
Interns == {"i1", "i2", "i3"}
Names == <<"Ann", "Bob">>
\* The place of a name in ascending order, the order sort("name", 1) uses.
NameRank(name) == CHOOSE i \in 1..Len(Names) : Names[i] = name

\* The users collection: three interns, each under one of the names, and a
\* mentor; emails are unique (the unique index on email).
UserStores ==
    { << [email |-> "i1", name |-> n1, role |-> "intern"],
         [email |-> "m1", name |-> "Ann", role |-> "mentor"],
         [email |-> "i2", name |-> n2, role |-> "intern"],
         [email |-> "i3", name |-> n3, role |-> "intern"] >> :
        n1 \in {"Ann", "Bob"}, n2 \in {"Ann", "Bob"}, n3 \in {"Ann", "Bob"} }

BoardTaskIds == {"t1", "t2"}
BoardKeys == BoardTaskIds \X Interns
\* The progress documents an intern holds for a task: none, or one.
BoardDocs ==
    {<<>>} \cup
    { <<[status |-> s, completion_date |-> IF s = "done" THEN Now ELSE None,
         notes |-> "", links |-> <<>>]>> : s \in {"in_progress", "done"} }

InitLeaderboard ==
    /\ tasks \in TaskStores \cup {<<>>}
    /\ progress \in [BoardKeys -> BoardDocs]
    /\ users \in UserStores
    /\ leaderboard = NotCalled
    /\ ret = FALSE
    /\ ops = 0
    /\ calls = NoCalls
    /\ exec = IdleExec
    /\ DashIdle
    /\ AuxIdle

\* get_users(role): the documents with that role, sorted by name ascending.
\* The store fixes no order among documents of equal name, so every order
\* sorted by name is a possible result.
get_users(role) ==
    LET matching == { i \in 1..Len(users) : users[i].role = role }
        n == Cardinality(matching)
    IN
    { [i \in 1..n |-> users[f[i]]] :
        f \in { g \in [1..n -> matching] :
                   /\ \A i, j \in 1..n : i # j => g[i] # g[j]
                   /\ \A i, j \in 1..n :
                        i < j => NameRank(users[g[i]].name)
                                    <= NameRank(users[g[j]].name) } }

\* count_documents({"user_email": user_email, "status": "done"})
count_done(p, user_email) ==
    Cardinality({ kd \in UNION { { <<k, d>> : d \in 1..Len(p[k]) } :
                                    k \in DOMAIN p } :
                    /\ kd[1][2] = user_email
                    /\ p[kd[1]][kd[2]].status = "done" })

\* completed_tasks / total_tasks * 100 without the test of total_tasks.
CompletionRateUnguarded(completed_tasks, total_tasks) ==
    [num |-> completed_tasks * 100, den |-> total_tasks]

\* completed_tasks / total_tasks * 100, kept as a fraction; 0 without tasks.
CompletionRate(completed_tasks, total_tasks) ==
    IF total_tasks > 0
    THEN [num |-> completed_tasks * 100, den |-> total_tasks]
    ELSE [num |-> 0, den |-> 1]

RateLess(a, b) == a.num * b.den < b.num * a.den

Entry(intern, total_tasks) ==
    LET completed_tasks == count_done(progress, intern.email) IN
    [email |-> intern.email, name |-> intern.name,
     completed_tasks |-> completed_tasks, total_tasks |-> total_tasks,
     completion_rate |-> CompletionRate(completed_tasks, total_tasks)]

\* list.sort(key=completion_rate, reverse=True) is stable: an entry goes
\* behind every entry whose rate is not lower than its own.
RECURSIVE InsertDescTiesFirst(_, _)
InsertDescTiesFirst(sorted, e) ==
    IF sorted = <<>> THEN <<e>>
    ELSE IF ~RateLess(e.completion_rate, Head(sorted).completion_rate)
    THEN <<e>> \o sorted
    ELSE <<Head(sorted)>> \o InsertDescTiesFirst(Tail(sorted), e)

RECURSIVE InsertDesc(_, _)
InsertDesc(sorted, e) ==
    IF sorted = <<>> THEN <<e>>
    ELSE IF RateLess(Head(sorted).completion_rate, e.completion_rate)
    THEN <<e>> \o sorted
    ELSE <<Head(sorted)>> \o InsertDesc(Tail(sorted), e)

RECURSIVE SortDesc(_)
SortDesc(entries) ==
    IF entries = <<>> THEN <<>>
    ELSE InsertDesc(SortDesc(SubSeq(entries, 1, Len(entries) - 1)),
                    entries[Len(entries)])

AddPositions(entries) ==
    [i \in 1..Len(entries) |->
        [email |-> entries[i].email, name |-> entries[i].name,
         completed_tasks |-> entries[i].completed_tasks,
         total_tasks |-> entries[i].total_tasks,
         completion_rate |-> entries[i].completion_rate,
         position |-> i]]

\* get_leaderboard() on a healthy store.  The productivity and
\* attendance_rate fields of an entry take no part in the ordering and are
\* left out.
get_leaderboard ==
    /\ \E interns \in get_users("intern") :
         leaderboard' =
            [called |-> TRUE, interns |-> interns,
             entries |-> AddPositions(SortDesc(
                 [i \in 1..Len(interns) |-> Entry(interns[i], Len(tasks))]))]
    /\ UNCHANGED <<tasks, progress, ret, ops, calls, exec, users, dashVars,
                   auxVars>>

NextLeaderboard == get_leaderboard

SpecLeaderboard == InitLeaderboard /\ [][NextLeaderboard]_vars

\* ------------------------------------------------- is_on_allowed_network
\* str.startswith
StartsWith(text, prefix) ==
    /\ Len(prefix) <= Len(text)
    /\ SubSeq(text, 1, Len(prefix)) = prefix

\* ipaddress.ip_address(ip): the address value, or Nothing for ValueError.
ip_address(ip) ==
    IF Len(ip) = 3
    THEN (IF IsDigit(ip[1]) /\ ip[2] = "." /\ IsDigit(ip[3])
          THEN Some(DigitValue(ip[1]) * 4 + DigitValue(ip[3]))
          ELSE Nothing)
    ELSE Nothing

\* 2^n
RECURSIVE Pow2(_)
Pow2(n) == IF n = 0 THEN 1 ELSE 2 * Pow2(n - 1)

\* ipaddress.ip_network(cidr), strict: the network, or Nothing for the
\* ValueError of a malformed address, a bad prefix length or host bits set.
\* A CIDR text "a.b/n" is kept as its two sides of the "/".
ip_network(cidr) ==
    LET addr == ip_address(cidr.address) IN
    IF addr = Nothing THEN Nothing
    ELSE IF cidr.prefixlen \notin 0..AddressBits THEN Nothing
    ELSE IF addr[1] % Pow2(AddressBits - cidr.prefixlen) # 0 THEN Nothing
    ELSE Some([address |-> addr[1], prefixlen |-> cidr.prefixlen])

\* ip_obj in network
InNetwork(value, net) ==
    value \div Pow2(AddressBits - net.prefixlen)
        = net.address \div Pow2(AddressBits - net.prefixlen)

\* The loop over ip_cidr inside one try: a ValueError ends it.
RECURSIVE CidrLoop(_, _)
CidrLoop(value, cidrs) ==
    IF cidrs = <<>> THEN FALSE
    ELSE LET net == ip_network(Head(cidrs)) IN
         IF net = Nothing THEN FALSE
         ELSE IF InNetwork(value, net[1]) THEN TRUE
         ELSE CidrLoop(value, Tail(cidrs))

InList(x, list) == \E i \in 1..Len(list) : list[i] = x

\* is_on_allowed_network(allowed_networks), the first component of its
\* result, for the network information get_network_info() gave.
is_on_allowed_network(allowed_networks, info) ==
    IF allowed_networks.keys = {} THEN FALSE
    ELSE IF /\ info.ssid # None
            /\ "ssid" \in allowed_networks.keys
            /\ InList(info.ssid, allowed_networks.ssid)
    THEN TRUE
    ELSE IF info.ip # UnknownIp /\ "ip_ranges" \in allowed_networks.keys
    THEN IF InList(info.ip, ListOf(allowed_networks, "ip_exact")) THEN TRUE
         ELSE IF \E i \in 1..Len(ListOf(allowed_networks, "ip_ranges")) :
                    StartsWith(info.ip, ListOf(allowed_networks, "ip_ranges")[i])
         THEN TRUE
         ELSE LET ip_obj == ip_address(info.ip) IN
              IF ip_obj = Nothing THEN FALSE
              ELSE CidrLoop(ip_obj[1], ListOf(allowed_networks, "ip_cidr"))
    ELSE FALSE

\* The allow-lists and observations the function is applied to.
Cidr(address, prefixlen) == [address |-> address, prefixlen |-> prefixlen]
AllowLists ==
    { AllowList(keys, ssid, ip_exact, ip_ranges, ip_cidr) :
        keys \in SUBSET {"ssid", "ip_exact", "ip_ranges", "ip_cidr"},
        ssid \in {<<>>, <<"Office_WiFi">>},
        ip_exact \in {<<>>, <<Ip(1, 2)>>},
        ip_ranges \in {<<>>, <<<<"2", ".">>>>},
        ip_cidr \in {<<>>, <<Cidr(Ip(3, 0), 2)>>,
                     <<Cidr(Ip(0, 1), 2), Cidr(Ip(3, 0), 2)>>} }
NetworkInfos ==
    { [ip |-> ip, ssid |-> ssid] :
        ip \in {UnknownIp, Ip(1, 2), Ip(2, 1), Ip(3, 3), Ip(0, 3)},
        ssid \in {None, "Office_WiFi", "Cafe"} }

InitNetwork ==
    /\ network \in [allowed_networks : AllowLists, info : NetworkInfos]
    /\ verdict = Nothing
    /\ creating = [c \in Procs |-> NoCreate]
    /\ measured = Nothing
    /\ CollIdle
    /\ tasks \in TaskStores
    /\ progress = EmptyProgress
    /\ ret = FALSE
    /\ ops = 0
    /\ calls = NoCalls
    /\ exec = IdleExec
    /\ users = <<>>
    /\ leaderboard = NotCalled
    /\ DashIdle

CheckNetwork ==
    /\ verdict' = Some(is_on_allowed_network(network.allowed_networks,
                                             network.info))
    /\ UNCHANGED <<tasks, progress, ret, ops, calls, exec, boardVars,
                   dashVars, network, creating, measured, collVars>>

NextNetwork == CheckNetwork

SpecNetwork == InitNetwork /\ [][NextNetwork]_vars

\* ------------------------------------------------------ intern dashboard
\* str.title(): the first letter of every run of letters in upper case.
Title(status) ==
    CASE status = "not_started" -> "Not_Started"
      [] status = "in_progress" -> "In_Progress"
      [] status = "done" -> "Done"

\* progress.get("submission_link"): no progress document has the field.
submission_link(doc) == None

\* get_today_attendance(intern_email), without the duration.
get_today_attendance(att, intern_email) ==
    LET ins == { i \in 1..Len(att) : /\ att[i].intern_email = intern_email
                                     /\ att[i].status = "check-in" }
        outs == { i \in 1..Len(att) : /\ att[i].intern_email = intern_email
                                      /\ att[i].status = "check-out" }
    IN
    [check_in |->
        IF ins = {} THEN Nothing
        ELSE Some(att[CHOOSE i \in ins :
                        \A j \in ins : att[i].timestamp <= att[j].timestamp]
                    .timestamp),
     check_out |->
        IF outs = {} THEN Nothing
        ELSE Some(att[CHOOSE i \in outs :
                        \A j \in outs : att[i].timestamp >= att[j].timestamp]
                    .timestamp),
     status |-> IF ins = {} THEN "Absent" ELSE "Present"]

default_attendance ==
    [check_in |-> Nothing, check_out |-> Nothing, status |-> "Unknown"]

\* get_performance_metrics(user_email, "weekly"): the task counts, the tasks
\* completed in the period and the days present.  All dates of a behaviour
\* lie in one day of the current week; the rates and hour figures derived
\* from these counts are left out.
get_performance_metrics(p, att, user_email) ==
    LET ts == get_user_tasks(p, user_email)
        count(status) ==
            Cardinality({ i \in 1..Len(ts) : ts[i].progress.status = status })
    IN
    [total_tasks |-> Len(ts),
     completed_tasks |-> count("done"),
     in_progress_tasks |-> count("in_progress"),
     not_started_tasks |-> count("not_started"),
     tasks_completed_in_period |->
        Cardinality({ kd \in UNION { { <<k, d>> : d \in 1..Len(p[k]) } :
                                        k \in DOMAIN p } :
                        /\ kd[1][2] = user_email
                        /\ p[kd[1]][kd[2]].status = "done"
                        /\ p[kd[1]][kd[2]].completion_date # None }),
     days_present |->
        IF \E i \in 1..Len(att) : /\ att[i].intern_email = user_email
                                   /\ att[i].status = "check-in"
        THEN 1 ELSE 0]

\* A call of an lru_cache'd function: the cached value under the key if
\* there is one, else the value computed now, which is then cached.
LruGet(cache, key, computed) ==
    IF cache[key] # Nothing THEN cache[key][1] ELSE computed
LruPut(cache, key, computed) ==
    IF cache[key] # Nothing THEN cache ELSE [cache EXCEPT ![key] = Some(computed)]

\* get_allowed_networks() on a healthy store: the stored configuration.
get_allowed_networks == network.allowed_networks

\* st.session_state['network_status']: is_on_allowed_network is asked once
\* per session and its answer kept.
NetworkStatus(st) ==
    IF st.network_status = Nothing
    THEN Some(is_on_allowed_network(get_allowed_networks, network.info))
    ELSE st.network_status

\* "For demo purposes, always allow": is_allowed after the network check.
is_allowed(network_status) == TRUE

\* The part of render_intern_dashboard every script run goes through: it
\* sets cache_time if the session has none, binds `tasks` through
\* cached_get_user_tasks, and `performance` through
\* cached_get_performance_metrics unless data_loaded holds one.  (The tab
\* index is 0 or 5, never 2.)  The result is the session and the two caches
\* after it.
Loaded(st, lt, lp, p, att) ==
    LET cache_time == IF st.cache_time = Nothing THEN clock
                      ELSE st.cache_time[1]
        key == <<InternEmail, cache_time>>
        tasksRead == LruGet(lt, key, get_user_tasks(p, InternEmail))
        cachedPerf == st.data_loaded.performance
        perfRead ==
            IF cachedPerf = Nothing
            THEN LruGet(lp, key, get_performance_metrics(p, att, InternEmail))
            ELSE cachedPerf[1]
    IN
    [session |-> [st EXCEPT !.cache_time = Some(cache_time),
                            !.data_loaded.performance = Some(perfRead),
                            !.network_status = NetworkStatus(st),
                            !.tasks = tasksRead,
                            !.performance = Some(perfRead)],
     lru_tasks |-> LruPut(lt, key, tasksRead),
     lru_perf |-> IF cachedPerf = Nothing THEN LruPut(lp, key, perfRead)
                  ELSE lp]

\* After a write the handler sets cache_time to int(time.time()) and
\* data_loaded to {} (keeping what it puts back in), then st.rerun().
Invalidated(st, today) ==
    [st EXCEPT !.cache_time = Some(clock),
               !.data_loaded = [performance |-> Nothing,
                                today_attendance |-> today]]

\* The entry of task_id in the list the run bound to `tasks`, if the status
\* filter lets it through.
VisibleEntries(st, task_id) ==
    { st.tasks[i] : i \in { j \in 1..Len(st.tasks) :
                               /\ st.tasks[j]._id = task_id
                               /\ Title(st.tasks[j].progress.status)
                                     \in st.task_status } }

\* The status the button of a task with this status asks for:
\* "Unmark as Done" on a done task, "Mark as Done" otherwise.
DoneButtonStatus(doc) ==
    IF doc.status = "done"
    THEN (IF submission_link(doc) # None THEN "in_progress" ELSE "not_started")
    ELSE "done"

\* A second passes.
Tick ==
    /\ clock < MaxClock
    /\ clock' = clock + 1
    /\ ran' = None
    /\ UNCHANGED <<tasks, progress, ret, ops, calls, exec, boardVars, auxVars,
                   attendance, sessions, lru_tasks, lru_perf>>

\* The intern opens or reloads the dashboard in session s.
Render(s) ==
    LET run == Loaded(sessions[s], lru_tasks, lru_perf, progress, attendance)
    IN
    /\ ops < MaxRuns
    /\ sessions' = [sessions EXCEPT ![s] = run.session]
    /\ lru_tasks' = run.lru_tasks
    /\ lru_perf' = run.lru_perf
    /\ ran' = s
    /\ ops' = ops + 1
    /\ UNCHANGED <<tasks, progress, ret, calls, exec, boardVars, auxVars,
                   attendance, clock>>

\* The intern changes the status filter, which reruns the script.
SelectFilter(s, task_status) ==
    LET run == Loaded([sessions[s] EXCEPT !.task_status = task_status],
                      lru_tasks, lru_perf, progress, attendance)
    IN
    /\ ops < MaxRuns
    /\ sessions[s].cache_time # Nothing
    /\ task_status # sessions[s].task_status
    /\ sessions' = [sessions EXCEPT ![s] = run.session]
    /\ lru_tasks' = run.lru_tasks
    /\ lru_perf' = run.lru_perf
    /\ ran' = s
    /\ ops' = ops + 1
    /\ UNCHANGED <<tasks, progress, ret, calls, exec, boardVars, auxVars,
                   attendance, clock>>

\* The intern presses the done button of task_id ("Unmark as Done" or
\* "Mark as Done"): the script runs up to the button, whose handler calls
\* update_task_progress(user_email, task_id, status, submission_link) -
\* the email in the place of task_id, the task id in the place of
\* user_email, the link in the place of notes - then invalidates and
\* reruns.
PressDone(s, task_id) ==
    LET run == Loaded(sessions[s], lru_tasks, lru_perf, progress, attendance)
        entry == CHOOSE e \in VisibleEntries(run.session, task_id) : TRUE
        existing == find_one(progress, InternEmail, task_id)
        after == WriteProgress(progress, existing, InternEmail, task_id,
                               DoneButtonStatus(entry.progress),
                               submission_link(entry.progress), NoLinks)
        rerun == Loaded(Invalidated(run.session, Nothing),
                        run.lru_tasks, run.lru_perf, after, attendance)
    IN
    /\ ops < MaxRuns
    /\ sessions[s].cache_time # Nothing
    /\ VisibleEntries(run.session, task_id) # {}
    /\ progress' = after
    /\ sessions' = [sessions EXCEPT ![s] = rerun.session]
    /\ lru_tasks' = rerun.lru_tasks
    /\ lru_perf' = rerun.lru_perf
    /\ ran' = s
    /\ ops' = ops + 1
    /\ UNCHANGED <<tasks, ret, calls, exec, boardVars, auxVars, attendance, clock>>

\* today_attendance of a run: the tab index is never 4, so it is what
\* data_loaded holds, or the default.
TodayAttendance(st) ==
    IF st.data_loaded.today_attendance # Nothing
    THEN st.data_loaded.today_attendance[1]
    ELSE default_attendance

\* log_attendance(intern_email, status, network_info) on a healthy store.
log_attendance(att, intern_email, status) ==
    Append(att, [intern_email |-> intern_email, status |-> status,
                 timestamp |-> clock])

\* A press of "Check In" or "Check Out" (the network is always allowed):
\* log_attendance, invalidate, fetch today's attendance again, rerun.
PressAttendance(s, status) ==
    LET run == Loaded(sessions[s], lru_tasks, lru_perf, progress, attendance)
        after == log_attendance(attendance, InternEmail, status)
        rerun == Loaded(Invalidated(run.session,
                            Some(get_today_attendance(after, InternEmail))),
                        run.lru_tasks, run.lru_perf, progress, after)
    IN
    /\ ops < MaxRuns
    /\ sessions[s].cache_time # Nothing
    /\ is_allowed(run.session.network_status)
    /\ attendance' = after
    /\ sessions' = [sessions EXCEPT ![s] = rerun.session]
    /\ lru_tasks' = rerun.lru_tasks
    /\ lru_perf' = rerun.lru_perf
    /\ ran' = s
    /\ ops' = ops + 1
    /\ UNCHANGED <<tasks, progress, ret, calls, exec, boardVars, auxVars, clock>>

CheckIn(s) ==
    /\ TodayAttendance(sessions[s]).check_in = Nothing
    /\ PressAttendance(s, "check-in")

CheckOut(s) ==
    /\ TodayAttendance(sessions[s]).check_in # Nothing
    /\ TodayAttendance(sessions[s]).check_out = Nothing
    /\ PressAttendance(s, "check-out")

\* Progress of the intern written through the store interface.
StoreUpdate ==
    \E t \in TaskIds, s \in Statuses :
        update_task_progress(t, InternEmail, s, None, NoLinks)

NextDash ==
    \/ StoreUpdate
    \/ Tick
    \/ \E s \in Sessions : Render(s)
    \/ \E s \in Sessions, f \in {DefaultFilter, {"Done"}} : SelectFilter(s, f)
    \/ \E s \in Sessions, t \in TaskIds : PressDone(s, t)
    \/ \E s \in Sessions : CheckIn(s)
    \/ \E s \in Sessions : CheckOut(s)

\* The stored allow-list lists one address; the host is on it or on another.
DashNetworks ==
    [allowed_networks : {AllowList({"ip_ranges"}, <<>>, <<>>, <<Ip(1, 2)>>, <<>>)},
     info : {[ip |-> Ip(1, 2), ssid |-> None], [ip |-> Ip(2, 1), ssid |-> None]}]

InitDash ==
    /\ tasks \in TaskStores
    /\ progress = EmptyProgress
    /\ ret = FALSE
    /\ ops = 0
    /\ calls = NoCalls
    /\ exec = IdleExec
    /\ users = <<>>
    /\ leaderboard = NotCalled
    /\ DashIdle
    /\ network \in DashNetworks
    /\ verdict = Nothing
    /\ creating = [c \in Procs |-> NoCreate]
    /\ measured = Nothing
    /\ CollIdle

SpecDash == InitDash /\ [][NextDash]_vars

\* -------------------------------------------------------- mentor dashboard
\* The titles a mentor types into the task form, in ascending string order.
Titles == <<"Build", "Deploy", "Review", "Setup">>
TitleRank(title) == CHOOSE i \in 1..Len(Titles) : Titles[i] = title
\* The ObjectIds insert_one gives to new task documents, in that order.
ObjectIds == <<"t1", "t2", "t3", "t4">>
\* Number of prerequisite references the store holds at a time.
MaxEdges == 4

\* The prerequisites list of a task document, [] if it has no such field
\* (task.get("prerequisites", [])).
PrereqList(task) ==
    IF task.prerequisites = Absent THEN <<>> ELSE task.prerequisites

RECURSIVE EdgeCount(_)
EdgeCount(ts) ==
    IF ts = <<>> THEN 0 ELSE Len(PrereqList(Head(ts))) + EdgeCount(Tail(ts))

\* db_manager.get_all_tasks(): the task documents in natural order.
get_all_tasks == tasks

\* The selectbox labels of the dependency forms.  Every task of the model is
\* assigned to the same intern, so a label is decided by the title.
task_options(all_tasks) == [i \in 1..Len(all_tasks) |-> all_tasks[i].title]

\* list.index(x): the first position that holds x.
Index(list, x) ==
    CHOOSE i \in 1..Len(list) :
        /\ list[i] = x
        /\ \A j \in 1..(i - 1) : list[j] # x

\* db_manager.add_task_dependency(task_id, prerequisite_id): the id joins
\* the prerequisites of the task, whatever the graph then looks like.
add_task_dependency(ts, task_id, prerequisite_id) ==
    [i \in 1..Len(ts) |->
        IF ts[i]._id # task_id THEN ts[i]
        ELSE IF InList(prerequisite_id, PrereqList(ts[i])) THEN ts[i]
        ELSE [ts[i] EXCEPT
                !.prerequisites = Append(PrereqList(ts[i]), prerequisite_id)]]

\* db_manager.remove_task_dependency(task_id, prerequisite_id): the id
\* leaves the prerequisites of the task.
remove_task_dependency(ts, task_id, prerequisite_id) ==
    [i \in 1..Len(ts) |->
        IF ts[i]._id # task_id THEN ts[i]
        ELSE IF ts[i].prerequisites = Absent THEN ts[i]
        ELSE [ts[i] EXCEPT
                !.prerequisites =
                    SelectSeq(@, LAMBDA id : id # prerequisite_id)]]

\* db_manager.get_task_prerequisites(task_id): the stored tasks the task
\* lists, in the order of its list.
get_task_prerequisites(task_id) ==
    LET task == find_task(task_id) IN
    IF task = Nothing THEN <<>>
    ELSE LET found == SelectSeq(PrereqList(task[1]),
                                LAMBDA id : find_task(id) # Nothing)
         IN [i \in 1..Len(found) |-> find_task(found[i])[1]]

\* ------------------------------------------- dependency overview (mentor)
\* The progress list get_all_tasks attaches to a task: the progress documents
\* of every user for its id.
RECURSIVE ProgressOf(_, _)
ProgressOf(task_id, us) ==
    IF us = {} THEN <<>>
    ELSE LET u == CHOOSE x \in us : TRUE
         IN progress[<<task_id, u>>] \o ProgressOf(task_id, us \ {u})

\* Lines 373-381: the one status the overview gives a task.
overall_status(task_id) ==
    LET docs == ProgressOf(task_id, Users)
        progress_statuses == { docs[i].status : i \in 1..Len(docs) }
    IN IF "done" \in progress_statuses THEN "done"
       ELSE IF "in_progress" \in progress_statuses THEN "in_progress"
       ELSE "not_started"

\* Line 393: the tasks whose prerequisites list holds the id.
dependent_count(all_tasks, task_id) ==
    Cardinality({ i \in 1..Len(all_tasks) :
                    InList(task_id, PrereqList(all_tasks[i])) })

\* Lines 391-400: the entries appended while looping over all_tasks.
RECURSIVE bottleneck_entries(_, _)
bottleneck_entries(all_tasks, rest) ==
    IF rest = <<>> THEN <<>>
    ELSE LET task == Head(rest)
             blocks == dependent_count(all_tasks, task._id)
         IN (IF blocks > 1 /\ overall_status(task._id) # "done"
             THEN << [title |-> task.title, id |-> task._id,
                      status |-> overall_status(task._id),
                      blocks |-> blocks] >>
             ELSE <<>>)
            \o bottleneck_entries(all_tasks, Tail(rest))

\* Insertion into a list sorted by blocks, descending, behind the entries of
\* equal blocks.
RECURSIVE InsertByBlocks(_, _)
InsertByBlocks(sorted, e) ==
    IF sorted = <<>> THEN <<e>>
    ELSE IF Head(sorted).blocks >= e.blocks
         THEN <<Head(sorted)>> \o InsertByBlocks(Tail(sorted), e)
         ELSE <<e>> \o sorted

\* Line 403: list.sort(key=blocks, reverse=True), a stable sort.
RECURSIVE SortByBlocks(_)
SortByBlocks(list) ==
    IF list = <<>> THEN <<>>
    ELSE InsertByBlocks(SortByBlocks(SubSeq(list, 1, Len(list) - 1)),
                        list[Len(list)])

\* Lines 389-403: bottleneck_tasks of the task dependency overview.
bottleneck_tasks ==
    SortByBlocks(bottleneck_entries(get_all_tasks, get_all_tasks))

\* A variant of the dependents query that looks at the first element of a
\* prerequisites list only.
DependentsByFirstPrereq(task_id) ==
    LET hits == SelectSeq(tasks, LAMBDA t :
                    /\ PrereqList(t) # <<>>
                    /\ Head(PrereqList(t)) = task_id)
    IN [i \in 1..Len(hits) |-> hits[i]._id]

\* Lines 218-226: db.tasks.find({"prerequisites": str(task["_id"])}), the
\* ids of the documents whose prerequisites array holds the id.
Dependents(task_id) ==
    LET hits == SelectSeq(tasks, LAMBDA t : InList(task_id, PrereqList(t)))
    IN [i \in 1..Len(hits) |-> hits[i]._id]

\* get_task_dependencies(task_id): the ids of its two lists.
get_task_dependencies(task_id) ==
    LET task == find_task(task_id) IN
    IF task = Nothing THEN [prerequisites |-> <<>>, dependents |-> <<>>]
    ELSE [prerequisites |->
            SelectSeq(PrereqList(task[1]),
                      LAMBDA prereq_id : find_task(prereq_id) # Nothing),
          dependents |-> Dependents(task_id)]

\* The "Create Task" form, submitted with one intern selected: one
\* insert_one of a document without a prerequisites field.
CreateTask(title) ==
    /\ Len(tasks) < Len(ObjectIds)
    /\ tasks' = Append(tasks, [_id |-> ObjectIds[Len(tasks) + 1],
                               title |-> title,
                               prerequisites |-> Absent])
    /\ UNCHANGED <<progress, ret, ops, calls, exec, boardVars, dashVars,
                   auxVars>>

\* The "Add Dependency" form, submitted with the options at positions
\* dependent and prerequisite selected.
AddDependency(dependent, prerequisite) ==
    LET all_tasks == get_all_tasks
        options == task_options(all_tasks)
        dependent_task == options[dependent]
        prerequisite_task == options[prerequisite]
        dependent_id == all_tasks[Index(options, dependent_task)]._id
        prerequisite_id == all_tasks[Index(options, prerequisite_task)]._id
    IN /\ dependent_task # prerequisite_task
       /\ EdgeCount(tasks) < MaxEdges
       /\ tasks' = add_task_dependency(tasks, dependent_id, prerequisite_id)
       /\ UNCHANGED <<progress, ret, ops, calls, exec, boardVars, dashVars,
                      auxVars>>

\* The options of the "Remove Dependency" form: one per task and stored
\* prerequisite, labelled with the two titles.
RECURSIVE dependency_options(_)
dependency_options(all_tasks) ==
    IF all_tasks = <<>> THEN <<>>
    ELSE LET task == Head(all_tasks)
             prereqs == get_task_prerequisites(task._id)
         IN [i \in 1..Len(prereqs) |->
                [label |-> <<task.title, prereqs[i].title>>,
                 task_id |-> task._id,
                 prereq_id |-> prereqs[i]._id]]
            \o dependency_options(Tail(all_tasks))

\* The "Remove Dependency" form, submitted with the option at position
\* selected.
RemoveDependency(selected) ==
    LET options == dependency_options(get_all_tasks)
        labels == [i \in 1..Len(options) |-> options[i].label]
        dep == options[Index(labels, labels[selected])]
    IN /\ selected \in 1..Len(options)
       /\ tasks' = remove_task_dependency(tasks, dep.task_id, dep.prereq_id)
       /\ UNCHANGED <<progress, ret, ops, calls, exec, boardVars, dashVars,
                      auxVars>>

\* The task documents the mentor's behaviours start from: three tasks made
\* with the "Create Task" form, none with a prerequisites field.
MentorStores ==
    { << [_id |-> "t1", title |-> "Setup", prerequisites |-> Absent],
         [_id |-> "t2", title |-> "Deploy", prerequisites |-> Absent],
         [_id |-> "t3", title |-> "Build", prerequisites |-> Absent] >> }

\* The progress documents they start from: the one the intern's completion
\* of t1 wrote.
MentorKeys == { ObjectIds[i] : i \in 1..Len(ObjectIds) } \X Users
MentorProgress ==
    { [k \in MentorKeys |->
            IF k = <<"t1", InternEmail>>
            THEN <<NewDoc("done", None, NoLinks)>> ELSE <<>>] }

InitMentor ==
    /\ tasks \in MentorStores
    /\ progress \in MentorProgress
    /\ ret = FALSE
    /\ ops = 0
    /\ calls = NoCalls
    /\ exec = IdleExec
    /\ users = <<>>
    /\ leaderboard = NotCalled
    /\ DashIdle
    /\ AuxIdle

NextMentor ==
    \/ \E title \in { Titles[i] : i \in 1..Len(Titles) } : CreateTask(title)
    \/ \E dependent, prerequisite \in 1..Len(tasks) :
            AddDependency(dependent, prerequisite)
    \/ \E selected \in 1..EdgeCount(tasks) : RemoveDependency(selected)

SpecMentor == InitMentor /\ [][NextMentor]_vars

\* ------------------------------------------------------------- seed_tasks
\* The task documents the seeding behaviours start from: the demo intern's
\* t1 and t2, and t3 of another intern, which lists both as prerequisites.
SeedStores ==
    { << [_id |-> "t1", prerequisites |-> Absent,
          assigned_to |-> InternEmail],
         [_id |-> "t2", prerequisites |-> <<>>,
          assigned_to |-> InternEmail],
         [_id |-> "t3", prerequisites |-> <<"t1", "t2">>,
          assigned_to |-> "u2"] >> }

\* The ObjectIds insert_many gives to the documents of TASKS, none of which
\* has a prerequisites field.
SeedIds == <<"t4", "t5">>
TASKS ==
    [i \in 1..Len(SeedIds) |->
        [_id |-> SeedIds[i], prerequisites |-> Absent,
         assigned_to |-> InternEmail]]

\* utils/seed_tasks.py, run once: delete_many of the demo intern's tasks,
\* then insert_many(TASKS).  The progress collection is left as it is.
seed_tasks ==
    /\ \A i \in 1..Len(tasks) : ~InList(tasks[i]._id, SeedIds)
    /\ tasks' = SelectSeq(tasks, LAMBDA task : task.assigned_to # InternEmail)
                    \o TASKS
    /\ UNCHANGED <<progress, ret, ops, calls, exec, boardVars, dashVars,
                   auxVars>>

\* update_task_progress as the dashboards and the API call it: without
\* notes and links.
StatusUpdate ==
    \E t \in TaskIds, u \in Users, s \in Statuses :
        update_task_progress(t, u, s, None, NoLinks)

InitSeed ==
    /\ tasks \in SeedStores
    /\ progress = EmptyProgress
    /\ ret = FALSE
    /\ ops = 0
    /\ calls = NoCalls
    /\ exec = IdleExec
    /\ users = <<>>
    /\ leaderboard = NotCalled
    /\ DashIdle
    /\ AuxIdle

NextSeed ==
    \/ StatusUpdate
    \/ seed_tasks

SpecSeed == InitSeed /\ [][NextSeed]_vars

\* ------------------------------------------------- status: str arguments
\* The status strings callers pass: the three the docstring names, and one
\* it does not.
StatusInputs == Statuses \cup {"blocked"}

\* update_task_progress called with any status string.
StatusCall ==
    \E t \in TaskIds, u \in Users, s \in StatusInputs :
        update_task_progress(t, u, s, None, NoLinks)

NextStatus == StatusCall

SpecStatus == Init /\ [][NextStatus]_vars

\* -------------------------------------------------------------- create_user
\* The ObjectIds insert_one gives to new user documents, in that order.
UserIds == <<"id1", "id2">>
\* The emails and names create_user is called with: app.py passes the email
\* as the name, the mentor's form a typed name.
NewUserEmails == {InternEmail, "u2"}
NewUserNames(email) == {email, "Ann"}

\* db.users.find_one({"email": email}): the document, if any.
find_user(email) ==
    IF \E i \in 1..Len(users) : users[i].email = email
    THEN Some(users[CHOOSE i \in 1..Len(users) : users[i].email = email])
    ELSE Nothing

\* A caller invokes create_user(email, name, "intern").
CallCreateUser(c, email, name) ==
    /\ creating[c].pc = "idle"
    /\ creating' = [creating EXCEPT ![c] =
                      [pc |-> "find", email |-> email, name |-> name,
                       result |-> Nothing]]
    /\ UNCHANGED <<tasks, progress, ret, ops, calls, exec, boardVars,
                   dashVars, netVars, measured, collVars>>

\* Lines 925-930: find_one, and the return of the existing id.
FindUser(c) ==
    LET existing_user == find_user(creating[c].email) IN
    /\ creating[c].pc = "find"
    /\ creating' = [creating EXCEPT ![c] =
                      IF existing_user # Nothing
                      THEN [@ EXCEPT !.pc = "returned",
                                     !.result = Some(existing_user[1]._id)]
                      ELSE [@ EXCEPT !.pc = "insert"]]
    /\ UNCHANGED <<tasks, progress, ret, ops, calls, exec, boardVars,
                   dashVars, netVars, measured, collVars>>

\* Lines 939-952: insert_one.  With the unique index on email the insert of
\* a second document for an email raises DuplicateKeyError, which
\* _execute_db_operation does not retry and create_user turns into None.
InsertUser(c) ==
    /\ creating[c].pc = "insert"
    /\ IF find_user(creating[c].email) # Nothing
       THEN /\ creating' = [creating EXCEPT ![c].pc = "returned",
                                            ![c].result = Nothing]
            /\ UNCHANGED users
       ELSE /\ users' = Append(users, [_id |-> UserIds[Len(users) + 1],
                                       email |-> creating[c].email,
                                       name |-> creating[c].name,
                                       role |-> "intern"])
            /\ creating' = [creating EXCEPT
                              ![c].pc = "returned",
                              ![c].result = Some(UserIds[Len(users) + 1])]
    /\ UNCHANGED <<tasks, progress, ret, ops, calls, exec, leaderboard,
                   dashVars, netVars, measured, collVars>>

\* The caller has its answer.
EndCreateUser(c) ==
    /\ creating[c].pc = "returned"
    /\ creating' = [creating EXCEPT ![c] = NoCreate]
    /\ UNCHANGED <<tasks, progress, ret, ops, calls, exec, boardVars,
                   dashVars, netVars, measured, collVars>>

InitUsers ==
    /\ tasks \in TaskStores
    /\ progress = EmptyProgress
    /\ ret = FALSE
    /\ ops = 0
    /\ calls = NoCalls
    /\ exec = IdleExec
    /\ users = <<>>
    /\ leaderboard = NotCalled
    /\ DashIdle
    /\ AuxIdle

NextUsers ==
    \/ \E c \in Procs, email \in NewUserEmails :
            \E name \in NewUserNames(email) : CallCreateUser(c, email, name)
    \/ \E c \in Procs : FindUser(c)
    \/ \E c \in Procs : InsertUser(c)
    \/ \E c \in Procs : EndCreateUser(c)

SpecUsers == InitUsers /\ [][NextUsers]_vars

\* --------------------------------------------- get_performance_metrics dates
\* In the behaviours of this section a datetime is a number of half days
\* since Monday 25 May 2026, 00:00, and `clock` is datetime.now().
SlotsPerDay == 2
DaysPerWeek == 7
\* 1 June 2026 is the Monday after; May has 31 days and June 30.
JuneFirst == DaysPerWeek
\* The last datetime a behaviour reaches, and the attendance documents it
\* writes.
MaxNow == 15
MaxRecords == 2

Periods == {"daily", "weekly", "monthly"}

\* dt.date() as a day number, and timedelta(days=n).
DayOf(dt) == dt \div SlotsPerDay
timedelta(days) == days * SlotsPerDay
\* now.weekday(): 0 for Monday.
weekday(dt) == DayOf(dt) % DaysPerWeek

\* Lines 1047-1066: the first instant of the period.
start_date(now, period) ==
    CASE period = "daily" -> timedelta(DayOf(now))
      [] period = "weekly" -> timedelta(DayOf(now) - weekday(now))
      [] period = "monthly" ->
            IF DayOf(now) >= JuneFirst THEN timedelta(JuneFirst)
            ELSE timedelta(JuneFirst - 31)

days_in_period(now, period) ==
    CASE period = "daily" -> 1
      [] period = "weekly" -> DaysPerWeek
      [] period = "monthly" -> IF DayOf(now) >= JuneFirst THEN 30 ELSE 31

\* The grouping of get_attendance_history over the documents of one intern
\* with start <= timestamp <= end: per day, the earliest check-in, the
\* latest check-out, the status and the duration in half days (None as
\* Nothing).
DayRecords(att, intern_email, start, end) ==
    LET records == { i \in 1..Len(att) :
                        /\ att[i].intern_email = intern_email
                        /\ att[i].timestamp >= start
                        /\ att[i].timestamp <= end }
        days == { DayOf(att[i].timestamp) : i \in records }
        stamps(day, status) ==
            { att[i].timestamp : i \in { j \in records :
                    /\ DayOf(att[j].timestamp) = day
                    /\ att[j].status = status } }
        Min(S) == CHOOSE x \in S : \A y \in S : x <= y
        Max(S) == CHOOSE x \in S : \A y \in S : x >= y
    IN { [date |-> day,
          status |-> IF stamps(day, "check-in") # {}
                     THEN "Present" ELSE "Absent",
          duration |->
            IF stamps(day, "check-in") # {} /\ stamps(day, "check-out") # {}
            THEN Some(Max(stamps(day, "check-out"))
                        - Min(stamps(day, "check-in")))
            ELSE Nothing] : day \in days }

\* get_attendance_history(intern_email, days) at the instant now.
get_attendance_history(att, intern_email, days, now) ==
    DayRecords(att, intern_email, now - timedelta(days), now)

RECURSIVE SumDurations(_)
SumDurations(records) ==
    IF records = {} THEN 0
    ELSE LET r == CHOOSE x \in records : TRUE
         IN (IF r.duration # Nothing THEN r.duration[1] ELSE 0)
            + SumDurations(records \ {r})

\* Lines 1078-1082: the attendance figures of get_performance_metrics over
\* the records it was given; a quotient is kept as <<numerator, denominator>>.
AttendanceFigures(attendance_records, days) ==
    LET days_present ==
            Cardinality({ r \in attendance_records : r.status = "Present" })
        total_hours == SumDurations(attendance_records)
    IN [days_present |-> days_present,
        total_hours |-> total_hours,
        attendance_rate |->
            IF days > 0 THEN <<days_present * 100, days>> ELSE <<0, 1>>,
        avg_hours_per_day |->
            IF days_present > 0 THEN <<total_hours, days_present>>
            ELSE <<0, 1>>]

\* Lines 1075-1082 of get_performance_metrics(user_email, period).
period_attendance(att, user_email, period, now) ==
    AttendanceFigures(
        get_attendance_history(att, user_email,
                               days_in_period(now, period), now),
        days_in_period(now, period))

\* The days get_attendance_stats is asked to look back.
StatsDays == {1, 2}

\* Lines 604-606: the days of the window that are Monday to Friday.
working_days(start, days) ==
    Cardinality({ i \in 0..(days - 1) : weekday(start + timedelta(i)) < 5 })

\* get_attendance_stats(days) over the interns given: per intern the days
\* present among the records of the last `days` days, the days absent and
\* the attendance rate as <<numerator, denominator>>.
get_attendance_stats(att, interns, days, now) ==
    LET start == now - timedelta(days)
        working == working_days(start, days)
    IN [i \in 1..Len(interns) |->
          LET days_present ==
                Cardinality({ r \in DayRecords(att, interns[i].email,
                                               start, now) :
                                r.status = "Present" })
          IN [intern_email |-> interns[i].email,
              days_present |-> days_present,
              days_absent |-> working - days_present,
              attendance_rate |->
                IF working > 0 THEN <<days_present * 100, working>>
                ELSE <<0, 1>>]]

\* The two users of the store as interns.
CountedUsers ==
    << [email |-> InternEmail, name |-> "Ann", role |-> "intern"],
       [email |-> "u2", name |-> "Bob", role |-> "intern"] >>

\* Half a day passes.
PassTime ==
    /\ clock < MaxNow
    /\ clock' = clock + 1
    /\ measured' = Nothing
    /\ UNCHANGED <<tasks, progress, ret, ops, calls, exec, boardVars,
                   attendance, sessions, lru_tasks, lru_perf, ran,
                   netVars, creating, collVars>>

\* log_attendance(intern_email, status, network_info) on a healthy store.
Attend(status) ==
    /\ Len(attendance) < MaxRecords
    /\ attendance' = log_attendance(attendance, InternEmail, status)
    /\ measured' = Nothing
    /\ UNCHANGED <<tasks, progress, ret, ops, calls, exec, boardVars,
                   clock, sessions, lru_tasks, lru_perf, ran,
                   netVars, creating, collVars>>

\* get_performance_metrics(user_email, period) is called.
Measure(period) ==
    /\ measured' = Some([period |-> period,
                         figures |-> period_attendance(attendance,
                                        InternEmail, period, clock)])
    /\ UNCHANGED <<tasks, progress, ret, ops, calls, exec, boardVars,
                   dashVars, netVars, creating, collVars>>

InitMetrics ==
    /\ tasks \in TaskStores
    /\ progress = EmptyProgress
    /\ ret = FALSE
    /\ ops = 0
    /\ calls = NoCalls
    /\ exec = IdleExec
    /\ users = CountedUsers
    /\ leaderboard = NotCalled
    /\ DashIdle
    /\ AuxIdle

NextMetrics ==
    \/ PassTime
    \/ \E status \in {"check-in", "check-out"} : Attend(status)
    \/ \E period \in Periods : Measure(period)

SpecMetrics == InitMetrics /\ [][NextMetrics]_vars

\* ------------------------------------------- metrics over a changing store
\* The task collections these behaviours start from: a fresh database, and
\* three tasks of which t3 belongs to the demo intern or to another one.
CountedStores ==
    {<<>>} \cup
    { << [_id |-> "t1", prerequisites |-> Absent,
          assigned_to |-> InternEmail],
         [_id |-> "t2", prerequisites |-> <<>>,
          assigned_to |-> InternEmail],
         [_id |-> "t3", prerequisites |-> <<"t1", "t2">>,
          assigned_to |-> a3] >> : a3 \in {InternEmail, "u2"} }

\* The attendance collection they start from: empty, or yesterday's
\* check-in and check-out of the demo intern (`clock`, now, stays 0).
CountedAttendance ==
    { <<>>,
      << [intern_email |-> InternEmail, status |-> "check-in",
          timestamp |-> 0 - SlotsPerDay],
         [intern_email |-> InternEmail, status |-> "check-out",
          timestamp |-> 0 - 1] >> }

\* Lines 1039-1045 and 1076-1090: the quotients of
\* get_performance_metrics(user_email, period), each as a fraction.
performance_rates(p, att, user_email, period, now) ==
    LET counts == get_performance_metrics(p, att, user_email)
        figures == period_attendance(att, user_email, period, now)
        days == days_in_period(now, period)
    IN [total_tasks |-> counts.total_tasks,
        completed_tasks |-> counts.completed_tasks,
        completion_rate |->
            CompletionRate(counts.completed_tasks, counts.total_tasks),
        daily_average |->
            [num |-> counts.tasks_completed_in_period, den |-> days],
        days_present |-> figures.days_present,
        total_hours |-> figures.total_hours,
        attendance_rate |->
            IF days > 0
            THEN [num |-> figures.days_present * 100, den |-> days]
            ELSE [num |-> 0, den |-> 1],
        avg_hours_per_day |->
            IF figures.days_present > 0
            THEN [num |-> figures.total_hours, den |-> figures.days_present]
            ELSE [num |-> 0, den |-> 1],
        productivity |->
            IF figures.total_hours > 0
            THEN [num |-> counts.tasks_completed_in_period,
                  den |-> figures.total_hours]
            ELSE [num |-> 0, den |-> 1]]

InitCounted ==
    /\ tasks \in CountedStores
    /\ progress = EmptyProgress
    /\ ret = FALSE
    /\ ops = 0
    /\ calls = NoCalls
    /\ exec = IdleExec
    /\ users = CountedUsers
    /\ leaderboard = NotCalled
    /\ attendance \in CountedAttendance
    /\ clock = 0
    /\ sessions = [s \in Sessions |-> NewSession]
    /\ lru_tasks = [k \in CacheKeys |-> Nothing]
    /\ lru_perf = [k \in CacheKeys |-> Nothing]
    /\ ran = None
    /\ AuxIdle

NextCounted ==
    \/ StatusUpdate
    \/ seed_tasks

SpecCounted == InitCounted /\ [][NextCounted]_vars

\* ------------------------------------------------------------ current streak
\* The last day a behaviour of this section reaches (`clock` counts half
\* days, as above).
MaxDay == 2

\* update_task_progress(task_id, user_email, "done") at the instant now: the
\* write of WriteProgress with datetime.now() as the completion date.
CompletedAt(p, task_id, user_email, now) ==
    LET k == <<task_id, user_email>>
        existing == find_one(p, task_id, user_email)
        after == WriteProgress(p, existing, task_id, user_email, "done",
                               None, NoLinks)
    IN IF existing = Nothing \/ existing[1].status # "done"
       THEN [after EXCEPT ![k] =
                <<[Head(@) EXCEPT !.completion_date = now]>> \o Tail(@)]
       ELSE after

\* The intern marks a task done.
CompleteTask(task_id) ==
    /\ ops < MaxOps
    /\ progress' = CompletedAt(progress, task_id, InternEmail, clock)
    /\ ret' = TRUE
    /\ ops' = ops + 1
    /\ UNCHANGED <<tasks, calls, exec, boardVars, dashVars, auxVars>>

\* Midnight passes.
NextDay ==
    /\ DayOf(clock) < MaxDay
    /\ clock' = clock + timedelta(1)
    /\ UNCHANGED <<tasks, progress, ret, ops, calls, exec, boardVars,
                   attendance, sessions, lru_tasks, lru_perf, ran, auxVars>>

\* intern_dashboard.py 204-211: completed_tasks of the Progress tab, from
\* the task list of get_user_tasks.
completed_tasks(user_tasks) ==
    Cardinality({ i \in 1..Len(user_tasks) :
                    user_tasks[i].progress.status = "done" })

\* create_progress_stats(total, completed): the number in the
\* "Current Streak" metric, f"{completed} days".
create_progress_stats(total, completed) == completed

\* The streak the Progress tab shows to the intern.
current_streak ==
    LET user_tasks == get_user_tasks(progress, InternEmail)
    IN create_progress_stats(Len(user_tasks), completed_tasks(user_tasks))

NextStreak ==
    \/ \E task_id \in TaskIds : CompleteTask(task_id)
    \/ NextDay

SpecStreak == Init /\ [][NextStreak]_vars

\* ---------------------------------------------------------- task categories
\* db.task_categories holds one document per category; a task document names
\* its category in the field `category`.  _id values are numbered in insert
\* order: `ops` counts the category documents inserted so far.
MaxCategoryDocs == 4
CategoryIds == <<"c1", "c2", "c3", "c4", "c5", "c6">>
MaxCategoryTasks == 2
default_categories == <<"General", "Technical", "Soft Skills">>
CategoryNames == {"General", "Research"}
CategoryTitles == {"Build"}

\* insert_one of a category document into store s, the n-th insert overall.
InsertCategory(s, name, n) ==
    Append(s, [_id |-> CategoryIds[n], name |-> name])

\* The store get_task_categories leaves behind: an empty collection gets the
\* three default documents.
WithDefaults(s) ==
    IF Len(s) = 0
    THEN InsertCategory(InsertCategory(InsertCategory(s,
             default_categories[1], ops + 1),
             default_categories[2], ops + 2),
             default_categories[3], ops + 3)
    ELSE s

InsertedByDefaults(s) == IF Len(s) = 0 THEN Len(default_categories) ELSE 0

\* get_task_categories(): the documents of the collection after the default
\* ones were created.  The callers below use the result as a set of options,
\* so the sort by name is not carried.
get_task_categories == WithDefaults(task_categories)

\* The "Task Categories" tab is rendered: get_task_categories() runs.
ShowCategories ==
    /\ Len(task_categories) = 0
    /\ ops + Len(default_categories) <= MaxCategoryDocs
    /\ task_categories' = get_task_categories
    /\ ops' = ops + InsertedByDefaults(task_categories)
    /\ UNCHANGED <<tasks, progress, ret, calls, exec, boardVars, dashVars,
                   netVars, creating, measured, network_config>>

\* add_task_category(name, description, color): the id of the category of
\* that name, inserted when there was none.
add_task_category(name) ==
    /\ ops < MaxCategoryDocs
    /\ IF \E i \in 1..Len(task_categories) : task_categories[i].name = name
       THEN UNCHANGED <<task_categories, ops>>
       ELSE /\ task_categories' = InsertCategory(task_categories, name, ops + 1)
            /\ ops' = ops + 1
    /\ UNCHANGED <<tasks, progress, ret, calls, exec, boardVars, dashVars,
                   netVars, creating, measured, network_config>>

\* The "Create Task" form with its category select box: the options are the
\* names get_task_categories() returns, and the inserted task document
\* carries the selected name.
CreateTaskIn(title, task_category) ==
    /\ Len(tasks) < MaxCategoryTasks
    /\ ops + InsertedByDefaults(task_categories) <= MaxCategoryDocs
    /\ \E i \in 1..Len(get_task_categories) :
           get_task_categories[i].name = task_category
    /\ tasks' = Append(tasks, [_id |-> ObjectIds[Len(tasks) + 1],
                               title |-> title,
                               category |-> task_category,
                               prerequisites |-> Absent])
    /\ task_categories' = get_task_categories
    /\ ops' = ops + InsertedByDefaults(task_categories)
    /\ UNCHANGED <<progress, ret, calls, exec, boardVars, dashVars,
                   netVars, creating, measured, network_config>>

\* count_documents({"category": category_id}) on db.tasks.
tasks_using_category(category_id) ==
    Cardinality({i \in 1..Len(tasks) : tasks[i].category = category_id})

\* delete_task_category(category_id): refused when tasks_using_category is
\* positive, otherwise delete_one by _id; `ret` is what it returns.
delete_task_category(category_id) ==
    /\ IF tasks_using_category(category_id) > 0
       THEN /\ ret' = FALSE
            /\ UNCHANGED task_categories
       ELSE /\ task_categories' =
                SelectSeq(task_categories, LAMBDA c : c._id # category_id)
            /\ ret' = (\E i \in 1..Len(task_categories) :
                           task_categories[i]._id = category_id)
    /\ UNCHANGED <<tasks, progress, ops, calls, exec, boardVars, dashVars,
                   netVars, creating, measured, network_config>>

InitCategories ==
    /\ tasks = <<>>
    /\ progress = EmptyProgress
    /\ ret = FALSE
    /\ ops = 0
    /\ calls = NoCalls
    /\ exec = IdleExec
    /\ users = <<>>
    /\ leaderboard = NotCalled
    /\ DashIdle
    /\ AuxIdle

NextCategories ==
    \/ ShowCategories
    \/ \E name \in CategoryNames : add_task_category(name)
    \/ \E title \in CategoryTitles :
         \E task_category \in CategoryNames \cup
                               {default_categories[2], default_categories[3]} :
           CreateTaskIn(title, task_category)
    \/ \E n \in 1..MaxCategoryDocs : delete_task_category(CategoryIds[n])

SpecCategories == InitCategories /\ [][NextCategories]_vars

\* ------------------------------------------------------- progression paths
\* Prerequisite graphs over three stored tasks: a chain, a graph with a
\* shared prerequisite, a cycle of two tasks, a task that lists itself with
\* a task behind it, a cycle of three, and a task that lists an id no
\* stored task has.
PathStores ==
    { << [_id |-> "t1", prerequisites |-> p[1]],
         [_id |-> "t2", prerequisites |-> p[2]],
         [_id |-> "t3", prerequisites |-> p[3]] >> :
        p \in { <<Absent, <<"t1">>, <<"t2">>>>,
                <<<<>>, <<"t1">>, <<"t1", "t2">>>>,
                <<<<"t2">>, <<"t1">>, <<>>>>,
                <<<<"t1">>, <<"t1">>, Absent>>,
                <<<<"t3">>, <<"t1">>, <<"t2">>>>,
                <<Absent, <<"t4">>, <<"t1">>>> } }

\* The status of the progress document find_one returns for (task, user).
StoredStatus(task_id, user_email) ==
    LET doc == find_one(progress, task_id, user_email) IN
    IF doc = Nothing THEN "not_started" ELSE doc[1].status

\* A user sets a task that can_start_task allows, and that is not yet at
\* that status, to in_progress or to done: update_task_progress on a healthy
\* store.
MarkStartable(task_id, user_email, status) ==
    LET existing == find_one(progress, task_id, user_email)
        after == WriteProgress(progress, existing, task_id, user_email,
                               status, None, NoLinks)
    IN
    /\ can_start_task(progress, task_id, user_email)
    /\ StoredStatus(task_id, user_email) # "done"
    /\ StoredStatus(task_id, user_email) # status
    /\ progress' = after
    /\ ret' \in (IF existing = Nothing THEN {TRUE}
                 ELSE ModifiedResults(progress, after))
    /\ ops' = ops + 1
    /\ ran' = None
    /\ UNCHANGED <<tasks, calls, exec, boardVars, auxVars,
                   attendance, clock, sessions, lru_tasks, lru_perf>>

InitPath ==
    /\ tasks \in PathStores
    /\ progress = EmptyProgress
    /\ ret = FALSE
    /\ ops = 0
    /\ calls = NoCalls
    /\ exec = IdleExec
    /\ users = <<>>
    /\ leaderboard = NotCalled
    /\ DashIdle
    /\ AuxIdle

NextPath ==
    \E task_id \in TaskIds, user_email \in Users :
        \E status \in {"in_progress", "done"} :
            MarkStartable(task_id, user_email, status)

SpecPath == InitPath /\ [][NextPath]_vars

\* The user keeps marking startable tasks done.
SpecPathFair ==
    /\ SpecPath
    /\ \A task_id \in TaskIds, user_email \in Users :
           WF_vars(MarkStartable(task_id, user_email, "done"))

\* ------------------------------------------------------------ login session
\* st.session_state of a browser session as a function from the keys it
\* holds to their values; the clock is time.time() in seconds.
LoginTick == 900
MaxLoginClock == 2700
CacheClearSeconds == 1800
Roles == {"intern", "mentor"}
essential_keys == {"chat_user", "chat_room", "active_tab", "cache_time"}

\* The address the simulated login gives a role.
LoginEmail(role) ==
    IF role = "intern" THEN InternEmail ELSE "mentor@example.com"

\* st.session_state[key] = value.
Put(ss, key, value) ==
    [k \in DOMAIN ss \cup {key} |-> IF k = key THEN value ELSE ss[k]]

\* `if key not in st.session_state: st.session_state[key] = value`.
SetDefault(ss, key, value) ==
    IF key \in DOMAIN ss THEN ss ELSE Put(ss, key, value)

\* `del st.session_state[key]` for every key outside a set.
KeepOnly(ss, keys) == [k \in DOMAIN ss \cap keys |-> ss[k]]

\* The session between script runs before the browser's first request.
EmptySession == [k \in {} |-> Nothing]

\* The session-state part of render_intern_dashboard: the defaults, then the
\* periodic cache clearing.
render_intern_dashboard(ss, current_time) ==
    LET defaults ==
            SetDefault(SetDefault(SetDefault(SetDefault(SetDefault(
            SetDefault(ss,
                "chat_user", Nothing),
                "chat_room", Nothing),
                "active_tab", 0),
                "cache_time", current_time),
                "data_loaded", <<>>),
                "last_cache_clear", current_time)
    IN
    IF current_time - defaults.last_cache_clear > CacheClearSeconds
    THEN Put(Put(KeepOnly(defaults, essential_keys),
                 "data_loaded", <<>>),
             "last_cache_clear", current_time)
    ELSE defaults

\* One run of app.py on session state ss: login_btn says whether the
\* "Login with Google" button was pressed with `role` selected, page which
\* sidebar entry is selected.  st.rerun() starts the script again without
\* the button press.
RECURSIVE app(_, _, _, _, _)
app(ss, login_btn, role, page, current_time) ==
    LET init == SetDefault(ss, "user", Nothing) IN
    IF init.user = Nothing
    THEN IF login_btn
         THEN app(Put(init, "user",
                      Some([email |-> LoginEmail(role), role |-> role])),
                  FALSE, role, "Dashboard", current_time)
         ELSE init
    ELSE IF page = "Logout"
    THEN app(Put(init, "user", Nothing), FALSE, role, "Dashboard",
             current_time)
    ELSE IF init.user[1].role = "mentor"
    THEN init
    ELSE render_intern_dashboard(init, current_time)

LoginUnchanged ==
    UNCHANGED <<tasks, progress, ret, ops, calls, exec, boardVars, auxVars,
                attendance, lru_tasks, lru_perf, ran>>

\* The browser of session s asks for a rerun: a widget changed, or the page
\* was rendered again.
Rerun(s) ==
    /\ sessions' = [sessions EXCEPT
                      ![s] = app(@, FALSE, "intern", "Dashboard", clock)]
    /\ clock' = clock
    /\ LoginUnchanged

\* "Login with Google" is pressed on the login screen.
Login(s, role) ==
    /\ "user" \in DOMAIN sessions[s]
    /\ sessions[s].user = Nothing
    /\ sessions' = [sessions EXCEPT
                      ![s] = app(@, TRUE, role, "Dashboard", clock)]
    /\ clock' = clock
    /\ LoginUnchanged

\* "Logout" is selected in the sidebar.
Logout(s) ==
    /\ "user" \in DOMAIN sessions[s]
    /\ sessions[s].user # Nothing
    /\ sessions' = [sessions EXCEPT
                      ![s] = app(@, FALSE, "intern", "Logout", clock)]
    /\ clock' = clock
    /\ LoginUnchanged

\* Time passes.
LoginTime ==
    /\ clock + LoginTick <= MaxLoginClock
    /\ clock' = clock + LoginTick
    /\ UNCHANGED sessions
    /\ LoginUnchanged

InitLogin ==
    /\ tasks \in TaskStores
    /\ progress = EmptyProgress
    /\ ret = FALSE
    /\ ops = 0
    /\ calls = NoCalls
    /\ exec = IdleExec
    /\ users = <<>>
    /\ leaderboard = NotCalled
    /\ attendance = <<>>
    /\ clock = 0
    /\ sessions = [s \in Sessions |-> EmptySession]
    /\ lru_tasks = [k \in CacheKeys |-> Nothing]
    /\ lru_perf = [k \in CacheKeys |-> Nothing]
    /\ ran = None
    /\ AuxIdle

NextLogin ==
    \/ \E s \in Sessions : Rerun(s)
    \/ \E s \in Sessions, role \in Roles : Login(s, role)
    \/ \E s \in Sessions : Logout(s)
    \/ LoginTime

SpecLogin == InitLogin /\ [][NextLogin]_vars

\* ------------------------------------------------- allowed network settings
\* db.allowed_networks holds one network_config document; of its fields the
\* three lists are carried.
default_config ==
    [ip_ranges |-> <<"127.0.0.1", "192.168.1.0/24">>,
     ssids |-> <<"Office WiFi", "Company Network">>,
     domains |-> <<"company.com", "office.local">>]

\* The network types the mentor dashboard's forms pass, and values it adds
\* or removes.
NetworkTypes == {"ssid", "ip_exact", "ip_ranges", "ip_cidr"}
NetworkValues == {"127.0.0.1", "10.0.0.0/8", "172.16.0.1", "Guest WiFi"}

\* get_allowed_networks_from() on a healthy store: the stored document, created
\* from the default when there is none.
get_allowed_networks_from(config) ==
    IF config = Nothing THEN default_config ELSE config[1]

\* list.remove(value): the first occurrence goes.
RemoveFirst(list, value) ==
    LET i == CHOOSE j \in 1..Len(list) :
                 /\ list[j] = value
                 /\ \A k \in 1..(j - 1) : list[k] # value
    IN SubSeq(list, 1, i - 1) \o SubSeq(list, i + 1, Len(list))

\* update_allowed_networks(networks, updated_by): the $set replaces the
\* lists and stamps last_updated; `ret` is modified_count > 0.
update_allowed_networks(networks) ==
    /\ network_config' = Some(networks)
    /\ ret' \in ModifiedResults(get_allowed_networks_from(network_config),
                                networks)

NetworkUnchanged ==
    UNCHANGED <<tasks, progress, ops, calls, exec, boardVars, dashVars,
                netVars, creating, measured, task_categories>>

\* add_allowed_network(network_type, value, updated_by).
add_allowed_network(network_type, value) ==
    LET networks == get_allowed_networks_from(network_config) IN
    /\ IF /\ network_type \in DOMAIN networks
          /\ ~InList(value, networks[network_type])
       THEN update_allowed_networks(
                [networks EXCEPT ![network_type] = Append(@, value)])
       ELSE update_allowed_networks(networks)
    /\ NetworkUnchanged

\* remove_allowed_network(network_type, value, updated_by).
remove_allowed_network(network_type, value) ==
    LET networks == get_allowed_networks_from(network_config) IN
    /\ IF /\ network_type \in DOMAIN networks
          /\ InList(value, networks[network_type])
       THEN update_allowed_networks(
                [networks EXCEPT ![network_type] = RemoveFirst(@, value)])
       ELSE update_allowed_networks(networks)
    /\ NetworkUnchanged

\* The "IP Management" tab is rendered: get_allowed_networks_from() runs and
\* stores the default configuration when none is stored.
ShowNetworks ==
    /\ network_config' = Some(get_allowed_networks_from(network_config))
    /\ UNCHANGED ret
    /\ NetworkUnchanged

InitSettings ==
    /\ tasks \in TaskStores
    /\ progress = EmptyProgress
    /\ ret = FALSE
    /\ ops = 0
    /\ calls = NoCalls
    /\ exec = IdleExec
    /\ users = <<>>
    /\ leaderboard = NotCalled
    /\ DashIdle
    /\ AuxIdle

NextSettings ==
    \/ ShowNetworks
    \/ \E network_type \in NetworkTypes, value \in NetworkValues :
         add_allowed_network(network_type, value)
    \/ \E network_type \in NetworkTypes, value \in NetworkValues :
         remove_allowed_network(network_type, value)

SpecSettings == InitSettings /\ [][NextSettings]_vars

\* ------------------------------------------------------- today's attendance
\* get_today_attendance(intern_email) at the instant now: of the intern's
\* records with today <= timestamp < tomorrow, the earliest check-in, the
\* latest check-out and the time between them.
get_today_attendance_at(att, intern_email, now) ==
    LET today == timedelta(DayOf(now))
        tomorrow == today + timedelta(1)
        stamps(status) ==
            { att[i].timestamp : i \in { j \in 1..Len(att) :
                    /\ att[j].intern_email = intern_email
                    /\ att[j].timestamp >= today
                    /\ att[j].timestamp < tomorrow
                    /\ att[j].status = status } }
        Min(S) == CHOOSE x \in S : \A y \in S : x <= y
        Max(S) == CHOOSE x \in S : \A y \in S : x >= y
        check_in == IF stamps("check-in") = {} THEN Nothing
                    ELSE Some(Min(stamps("check-in")))
        check_out == IF stamps("check-out") = {} THEN Nothing
                     ELSE Some(Max(stamps("check-out")))
    IN [check_in |-> check_in,
        check_out |-> check_out,
        duration |-> IF check_in # Nothing /\ check_out # Nothing
                     THEN Some(check_out[1] - check_in[1]) ELSE Nothing,
        status |-> IF check_in # Nothing THEN "Present" ELSE "Absent"]

\* ==================================================================== claims
\* The status get_user_tasks shows for (task, user): the found document's,
\* or not_started.
StatusOf(p, task_id, user_email) ==
    LET doc == find_one(p, task_id, user_email) IN
    IF doc = Nothing THEN "not_started" ELSE doc[1].status

HasDoneDoc(p, task_id, user_email) ==
    \E d \in 1..Len(p[<<task_id, user_email>>]) :
        p[<<task_id, user_email>>][d].status = "done"

\* C1: for every stored task and every user, can_start_task is true exactly
\* when the task has no prerequisites field, or an empty list, or every
\* listed prerequisite has a progress document of that user with status
\* done (no document counts as not done), in every state a sequence of
\* update_task_progress calls leads to.
C1_CanStartIffPrereqsDone ==
    \A i \in 1..Len(tasks), u \in Users :
        can_start_task(progress, tasks[i]._id, u) <=>
            IF tasks[i].prerequisites = Absent THEN TRUE
            ELSE \A j \in 1..Len(tasks[i].prerequisites) :
                    HasDoneDoc(progress, tasks[i].prerequisites[j], u)

\* C1 witness: a task with two prerequisites that cannot start because one
\* prerequisite was done and has been moved away from done, while the other
\* still is done.
C1_Witness ==
    \E i \in 1..Len(tasks), u \in Users :
        /\ tasks[i].prerequisites # Absent
        /\ Len(tasks[i].prerequisites) = 2
        /\ ~can_start_task(progress, tasks[i]._id, u)
        /\ StatusOf(progress, tasks[i].prerequisites[1], u) = "done"
        /\ LET doc == find_one(progress, tasks[i].prerequisites[2], u) IN
              /\ doc # Nothing
              /\ doc[1].status = "in_progress"
              /\ doc[1].completion_date = Now

\* C2: a progress document carries a completion date exactly when its
\* status is done.
C2_CompletionDateIffDone ==
    \A k \in DOMAIN progress : \A d \in 1..Len(progress[k]) :
        (progress[k][d].completion_date # None) <=>
            (progress[k][d].status = "done")

\* C3: under any interleaving of the find_one and the insert_one/update_one
\* steps of concurrent update_task_progress calls, the store holds at most
\* one progress document per (task, user) pair, and when a call completes,
\* the status the store answers for its pair is the status it wrote.
C3_OneRecordNoLostWrite ==
    [][ /\ \A k \in DOMAIN progress' : Len(progress'[k]) <= 1
        /\ \A c \in Procs :
              WriteBack(c) =>
                  StatusOf(progress', calls[c].task_id, calls[c].user_email)
                      = calls[c].status ]_vars

\* C4: a user's progress on a task with prerequisites never leaves
\* not_started (or no document) for in_progress or done in a state where
\* can_start_task is false for that user and task.
C4_NoStartBeforePrereqs ==
    [][\A i \in 1..Len(tasks), u \in Users :
        ( /\ tasks[i].prerequisites # Absent
          /\ tasks[i].prerequisites # <<>>
          /\ StatusOf(progress, tasks[i]._id, u) = "not_started"
          /\ StatusOf(progress', tasks[i]._id, u) \in {"in_progress", "done"} )
        => can_start_task(progress, tasks[i]._id, u)]_vars

\* C5: a press of "Mark as Done" or "Unmark as Done" on a task writes the
\* progress document keyed by that task's id and the intern's email, and no
\* document under the two swapped, so that get_user_tasks for the intern
\* then reports the task with the status the button asked for.
C5_DoneButtonWritesInternRecord ==
    [][ \A s \in Sessions, t \in TaskIds :
          PressDone(s, t) =>
            /\ progress'[<<InternEmail, t>>] = progress[<<InternEmail, t>>]
            /\ \A shown \in VisibleEntries(sessions[s], t) :
                  \A e \in ReportedTasks(progress', InternEmail, t) :
                      e.progress.status = DoneButtonStatus(shown.progress)
      ]_vars

\* What get_user_tasks(user) must report after a call that returned true.
Reports(p, t, u, s, notes, links) ==
    /\ ReportedTasks(p, u, t) # {}
    /\ \A e \in ReportedTasks(p, u, t) :
          /\ e.progress.status = s
          /\ (notes # None => e.progress.notes = notes)
          /\ (links # NoLinks => e.progress.links = links)

\* C6: once update_task_progress(task, user, status, notes, links) has
\* returned true, get_user_tasks(user) reports that task with that status,
\* and with the notes and the links the call gave.
C6_RoundTrip ==
    [][\A t \in TaskIds, u \in Users, s \in Statuses :
        \A nl \in NoteLinkInputs(u) :
          (ret' /\ update_task_progress(t, u, s, nl[1], nl[2]))
          => Reports(progress', t, u, s, nl[1], nl[2])]_vars

\* C6 witness: a call has returned true and the intern's document for a
\* task holds notes and links written by two separate calls.
C6_Witness ==
    /\ ret
    /\ \E t \in TaskIds :
         \E e \in ReportedTasks(progress, InternEmail, t) :
            /\ e.progress.status = "in_progress"
            /\ e.progress.notes = "n1"
            /\ e.progress.links = <<"l1">>

\* C7: the task list and the performance metrics a script run of any
\* session has just read are the ones the store gives at that moment, so no
\* value cached before an earlier write is read after it.
C7_ReadsAreFresh ==
    ran # None =>
        /\ sessions[ran].tasks = get_user_tasks(progress, InternEmail)
        /\ sessions[ran].performance =
              Some(get_performance_metrics(progress, attendance, InternEmail))

\* The last outcome of a history of attempts.
IsLast(history, x) == history # <<>> /\ history[Len(history)] = x

\* The state of a call of _execute_db_operation at every point of its loop
\* (the invariant part of the claim below).
C8_RetryInvariant ==
    UsesExecute(exec.method) =>
        /\ Len(exec.history) <= max_retries
        /\ \A i \in 1..(Len(exec.history) - 1) :
              exec.history[i] \in ConnectivityErrors
        /\ exec.pc = "running" =>
              /\ Len(exec.history) < max_retries
              /\ exec.attempt = Len(exec.history)
              /\ \A i \in 1..Len(exec.history) :
                    exec.history[i] \in ConnectivityErrors
        /\ exec.pc = "returned" =>
              /\ Len(exec.history) >= 1
              /\ exec.result \in {"ok", "inner_default"}
              /\ IsLast(exec.history, exec.result)
        /\ exec.pc = "raised" =>
              /\ Len(exec.history) >= 1
              /\ IsLast(exec.history, exec.result)
              /\ \/ exec.result = "OperationFailure"
                 \/ /\ exec.result \in ConnectivityErrors
                    /\ Len(exec.history) = max_retries

\* C8: _execute_db_operation invokes the operation at least once and at most
\* max_retries times; every attempt before the last ended in a
\* ConnectionFailure or NetworkTimeout; it returns the first result the
\* operation gives, raises any other exception on the attempt that met it,
\* and raises the connectivity error itself once max_retries attempts in a
\* row have failed.  A call still running has attempts left, so it ends.
C8_RetryBounded ==
    /\ []C8_RetryInvariant
    /\ (exec.pc = "running" ~> exec.pc # "running")

\* C8 witness: a call that failed three times on connectivity errors and
\* raised the last of them.
C8_Witness ==
    /\ exec.method = "get_user_tasks"
    /\ exec.pc = "raised"
    /\ exec.result = "NetworkTimeout"
    /\ exec.history = <<"ConnectionFailure", "NetworkTimeout", "NetworkTimeout">>

\* C9: when every store call a public DatabaseManager method makes fails,
\* the method returns its default to the caller and raises nothing.
C9_NoExceptionReachesCaller ==
    ( /\ exec.pc = "done"
      /\ \A i \in 1..Len(exec.history) : exec.history[i] # "ok" )
    => exec.result = "default"

\* The place of an intern in the order get_users returned.
ReadIndex(email) ==
    CHOOSE i \in 1..Len(leaderboard.interns) :
        leaderboard.interns[i].email = email

\* C10: get_leaderboard returns one entry per intern, positions 1..n in
\* order, completion rate never rising with position, and entries of equal
\* rate in the order the interns were read in.
C10_LeaderboardOrder ==
    leaderboard.called =>
        LET b == leaderboard.entries
            internEmails == { users[i].email :
                                i \in { j \in 1..Len(users) :
                                           users[j].role = "intern" } }
        IN
        /\ Len(b) = Cardinality(internEmails)
        /\ \A e \in internEmails :
              Cardinality({ i \in 1..Len(b) : b[i].email = e }) = 1
        /\ \A i \in 1..Len(b) : b[i].position = i
        /\ \A i, j \in 1..Len(b) :
              i < j =>
                /\ ~RateLess(b[i].completion_rate, b[j].completion_rate)
                /\ ~RateLess(b[j].completion_rate, b[i].completion_rate)
                     => ReadIndex(b[i].email) < ReadIndex(b[j].email)

\* C10 witness: a leaderboard of three interns over three tasks in which the
\* intern read last leads, and the two read before it tie and keep their
\* read order.
C10_Witness ==
    /\ leaderboard.called
    /\ Len(leaderboard.entries) = 3
    /\ leaderboard.entries[1].email = leaderboard.interns[3].email
    /\ leaderboard.entries[2].email = leaderboard.interns[1].email
    /\ leaderboard.entries[3].email = leaderboard.interns[2].email
    /\ leaderboard.entries[1].completed_tasks = 2
    /\ leaderboard.entries[2].completed_tasks = 1
    /\ leaderboard.entries[3].completed_tasks = 1
    /\ leaderboard.entries[1].total_tasks = 3

\* What the claim counts as a match, each on its own.
IpListed(allowed_networks, info) == InList(info.ip, allowed_networks.ip_exact)
IpPrefixed(allowed_networks, info) ==
    \E i \in 1..Len(allowed_networks.ip_ranges) :
        StartsWith(info.ip, allowed_networks.ip_ranges[i])
IpInBlock(allowed_networks, info) ==
    /\ ip_address(info.ip) # Nothing
    /\ \E i \in 1..Len(allowed_networks.ip_cidr) :
          /\ ip_network(allowed_networks.ip_cidr[i]) # Nothing
          /\ InNetwork(ip_address(info.ip)[1],
                       ip_network(allowed_networks.ip_cidr[i])[1])
SsidListed(allowed_networks, info) ==
    info.ssid # None /\ InList(info.ssid, allowed_networks.ssid)

\* The allow-list as its keys give it: a list under an absent key is empty.
Effective(allowed_networks) ==
    AllowList(allowed_networks.keys,
              ListOf(allowed_networks, "ssid"),
              ListOf(allowed_networks, "ip_exact"),
              ListOf(allowed_networks, "ip_ranges"),
              ListOf(allowed_networks, "ip_cidr"))

\* C11: is_on_allowed_network returns true exactly when the observed IP is
\* listed in ip_exact, or starts with an entry of ip_ranges, or lies in a
\* block of ip_cidr, or the observed SSID is in the ssid list, whichever
\* other keys the allow-list has.
C11_AnyMatchSuffices ==
    verdict # Nothing =>
        LET a == Effective(network.allowed_networks)
            i == network.info
        IN
        verdict[1] <=> ( \/ IpListed(a, i) \/ IpPrefixed(a, i)
                         \/ IpInBlock(a, i) \/ SsidListed(a, i) )

\* C12: a script run in which is_on_allowed_network has reported that the
\* observed network is not allowed writes no attendance record.
C12_NoAttendanceOffNetwork ==
    [][ ( /\ ran' # None
          /\ sessions'[ran'].network_status = Some(FALSE) )
        => attendance' = attendance ]_vars

\* C13: the attendance store holds at most one check-in record and at most
\* one check-out record for an intern and day (the records of a behaviour
\* all fall on one day).
C13_OneCheckInOneCheckOut ==
    \A status \in {"check-in", "check-out"} :
        Cardinality({ i \in 1..Len(attendance) :
                        /\ attendance[i].intern_email = InternEmail
                        /\ attendance[i].status = status }) <= 1

\* The ids a task document lists as prerequisites.
PrereqIds(ts, task_id) ==
    UNION { { PrereqList(ts[i])[j] : j \in 1..Len(PrereqList(ts[i])) } :
            i \in { k \in 1..Len(ts) : ts[k]._id = task_id } }

\* The ids reached from a set of ids by at most n prerequisite references.
RECURSIVE Closure(_, _, _)
Closure(ts, ids, n) ==
    IF n = 0 THEN ids
    ELSE Closure(ts, ids \cup UNION { PrereqIds(ts, id) : id \in ids }, n - 1)

\* The direct and transitive prerequisites of a task.
TransitivePrereqs(ts, task_id) ==
    Closure(ts, PrereqIds(ts, task_id), Len(ts))

\* C14: in every state the mentor dashboard's task and dependency forms
\* reach, no task is a direct or transitive prerequisite of itself.
C14_PrerequisiteGraphAcyclic ==
    \A i \in 1..Len(tasks) :
        tasks[i]._id \notin TransitivePrereqs(tasks, tasks[i]._id)

\* A task document lists an id no stored task has.
HasDanglingPrereq(task) ==
    \E j \in 1..Len(PrereqList(task)) :
        find_task(PrereqList(task)[j]) = Nothing

\* C15: a task that lists a prerequisite id of no stored task cannot be
\* started by any user, whatever progress documents the store holds.
C15_DanglingPrereqBlocks ==
    \A i \in 1..Len(tasks) :
        HasDanglingPrereq(tasks[i]) =>
            \A u \in Users : ~can_start_task(progress, tasks[i]._id, u)

\* C16: every stored progress document has one of the three statuses, so a
\* call with any other status stores nothing.
C16_StatusInDomain ==
    \A k \in Keys : \A i \in 1..Len(progress[k]) :
        progress[k][i].status \in Statuses

\* The users collection holds at most one document per email.
UniqueEmails ==
    \A i, j \in 1..Len(users) : users[i].email = users[j].email => i = j

\* C17: under any interleaving of create_user calls no two user documents
\* share an email, and a call that returns while a document with its email
\* is stored returns that document's id and leaves the document as it was.
C17_CreateUserIdempotent ==
    [][ /\ UniqueEmails'
        /\ \A c \in Procs :
            ( /\ creating[c].pc \in {"find", "insert"}
              /\ creating'[c].pc = "returned"
              /\ find_user(creating[c].email) # Nothing )
            => /\ users' = users
               /\ creating'[c].result
                    = Some(find_user(creating[c].email)[1]._id) ]_vars

\* C18: the attendance figures of get_performance_metrics are those of the
\* attendance documents stamped between the start of the period (today
\* 00:00, the last Monday 00:00, the first of the month) and now, the
\* window tasks_completed_in_period uses.
C18_AttendanceInPeriodWindow ==
    measured # Nothing =>
        measured[1].figures =
            AttendanceFigures(
                DayRecords(attendance, InternEmail,
                           start_date(clock, measured[1].period), clock),
                days_in_period(clock, measured[1].period))

\* C19: the bottleneck list holds exactly the tasks that are not done and
\* that more than one other task lists as a prerequisite, by dependent
\* count descending and, among equal counts, by title ascending.
C19_BottleneckRanking ==
    LET list == bottleneck_tasks
        Listing(task_id) ==
            { i \in 1..Len(tasks) :
                /\ tasks[i]._id # task_id
                /\ InList(task_id, PrereqList(tasks[i])) }
    IN /\ \A i \in 1..Len(tasks) :
            ( /\ overall_status(tasks[i]._id) # "done"
              /\ Cardinality(Listing(tasks[i]._id)) > 1 )
            <=> Cardinality({ j \in 1..Len(list) :
                                list[j].id = tasks[i]._id }) = 1
       /\ \A j \in 1..Len(list) : \E i \in 1..Len(tasks) :
            tasks[i]._id = list[j].id
       /\ \A j \in 1..(Len(list) - 1) :
            \/ list[j].blocks > list[j + 1].blocks
            \/ /\ list[j].blocks = list[j + 1].blocks
               /\ TitleRank(list[j].title) <= TitleRank(list[j + 1].title)

\* C20: for stored tasks A and B, get_task_dependencies reports B among the
\* dependents of A exactly when it reports A among the prerequisites of B.
C20_ForwardReverseConsistent ==
    \A i, j \in 1..Len(tasks) :
        InList(tasks[j]._id, get_task_dependencies(tasks[i]._id).dependents)
        <=> InList(tasks[i]._id,
                   get_task_dependencies(tasks[j]._id).prerequisites)

\* Witness for C20: a task is the second prerequisite of another one, whose
\* first prerequisite has since been removed and added again.
C20_Witness ==
    \E i, j \in 1..Len(tasks) :
        /\ Len(PrereqList(tasks[j])) = 2
        /\ PrereqList(tasks[j])[2] = tasks[i]._id
        /\ InList(tasks[j]._id,
                  get_task_dependencies(tasks[i]._id).dependents)
        /\ \E k \in 1..Len(tasks) : tasks[k].prerequisites = <<>>

\* The user's progress on every stored task is done.
AllDone(user_email) ==
    \A i \in 1..Len(tasks) :
        LET doc == find_one(progress, tasks[i]._id, user_email)
        IN doc # Nothing /\ doc[1].status = "done"

\* C21: for every user and period the completion rate is 0 without tasks
\* and 100 when the user's progress on every task is done, and no quotient
\* of get_performance_metrics has the divisor 0: completion_rate,
\* productivity and avg_hours_per_day are 0 where it would be.
C21_CompletionRateBounds ==
    \A u \in Users, period \in Periods :
        LET m == performance_rates(progress, attendance, u, period, clock)
            IsZero(q) == q.num = 0
        IN /\ Len(tasks) = 0 => IsZero(m.completion_rate)
           /\ (Len(tasks) > 0 /\ AllDone(u))
                => m.completion_rate.num = 100 * m.completion_rate.den
           /\ \A q \in {m.completion_rate, m.daily_average,
                        m.attendance_rate, m.avg_hours_per_day,
                        m.productivity} : q.den # 0
           /\ m.total_hours = 0 => IsZero(m.productivity)
           /\ m.days_present = 0 => IsZero(m.avg_hours_per_day)

\* Witness for C21: the demo intern has attended, has completed all three
\* stored tasks and the rate reported is 100 over a non-zero divisor.
C21_Witness ==
    LET m == performance_rates(progress, attendance, InternEmail,
                               "weekly", clock)
    IN /\ Len(tasks) = 3
       /\ AllDone(InternEmail)
       /\ m.completion_rate = [num |-> 300, den |-> 3]
       /\ m.total_hours > 0
       /\ m.productivity.num = 3

\* The days on which a done progress document of the user was completed.
CompletionDays(user_email) ==
    { DayOf(progress[kd[1]][kd[2]].completion_date) :
        kd \in { x \in UNION { { <<k, d>> : d \in 1..Len(progress[k]) } :
                                  k \in DOMAIN progress } :
                    /\ x[1][2] = user_email
                    /\ progress[x[1]][x[2]].status = "done" } }

\* The number of consecutive days with a completion, walking back from day.
RECURSIVE DaysInARow(_, _)
DaysInARow(days, day) ==
    IF day \in days THEN 1 + DaysInARow(days \ {day}, day - 1) ELSE 0

\* C22: the streak shown equals the number of consecutive calendar days,
\* walking backward from today, with a completion of the user on each.
C22_StreakCountsConsecutiveDays ==
    current_streak = DaysInARow(CompletionDays(InternEmail), DayOf(clock))

\* C23: a call through _execute_db_operation whose first store round trip
\* met a ConnectionFailure or NetworkTimeout and whose later ones were
\* answered makes a second attempt and hands the operation's result, not
\* the failure default, to its caller.
C23_TransientErrorRetried ==
    ( /\ exec.pc = "done"
      /\ UsesExecute(exec.method)
      /\ Len(exec.store) >= 1
      /\ exec.store[1] \in ConnectivityErrors
      /\ \A i \in 2..Len(exec.store) : exec.store[i] = "ok" )
    => /\ Len(exec.store) >= 2
       /\ exec.result = "value"

\* The stored tasks that refer to the category document of this id: their
\* category field holds the document's name.
TasksReferringTo(category_id) ==
    {i \in 1..Len(tasks) :
        \E c \in 1..Len(task_categories) :
            /\ task_categories[c]._id = category_id
            /\ tasks[i].category = task_categories[c].name}

\* C24: delete_task_category never removes a category that a stored task
\* refers to: called on such a category it returns false and leaves
\* db.task_categories as it was.
C24_CategoryInUseKept ==
    [][\A category_id \in {CategoryIds[n] : n \in 1..MaxCategoryDocs} :
          (delete_task_category(category_id)
           /\ TasksReferringTo(category_id) # {})
          => (ret' = FALSE /\ task_categories' = task_categories)]_vars

\* No stored task is its own direct or transitive prerequisite, and every
\* listed prerequisite id is the id of a stored task.
Acyclic ==
    /\ C14_PrerequisiteGraphAcyclic
    /\ \A i \in 1..Len(tasks) : ~HasDanglingPrereq(tasks[i])

\* A not-done task of the user that can_start_task allows.
SomeStartable(user_email) ==
    \E i \in 1..Len(tasks) :
        /\ StoredStatus(tasks[i]._id, user_email) # "done"
        /\ can_start_task(progress, tasks[i]._id, user_email)

\* C25 (first part): on an acyclic graph whose prerequisite ids are all
\* stored, a user with a task not done has a not-done task that
\* can_start_task allows.
C25_SomeTaskStartable ==
    \A user_email \in Users :
        (Acyclic /\ ~AllDone(user_email)) => SomeStartable(user_email)

\* C25 (third part): a task on a cycle is never startable.
C25_CycleNeverStartable ==
    \A user_email \in Users : \A i \in 1..Len(tasks) :
        tasks[i]._id \in TransitivePrereqs(tasks, tasks[i]._id)
        => ~can_start_task(progress, tasks[i]._id, user_email)

LoggedIn(ss) == "user" \in DOMAIN ss /\ ss.user # Nothing

\* C26: once a session is logged in, its `user` entry stays set across every
\* step that is not that session's Logout, the periodic cache clearing of
\* the intern dashboard included.
C26_UserStaysLoggedIn ==
    [][\A s \in Sessions :
          (LoggedIn(sessions[s]) /\ ~Logout(s)) => LoggedIn(sessions'[s])]_vars

\* What the mentor dashboard lists under a network type:
\* allowed_networks.get(network_type, []).
ListedUnder(config, network_type, value) ==
    /\ network_type \in DOMAIN get_allowed_networks_from(config)
    /\ InList(value, get_allowed_networks_from(config)[network_type])

\* C27: when add_allowed_network(type, value) returns true the following
\* get_allowed_networks lists value under type, and when
\* remove_allowed_network(type, value) returns true it no longer does, for
\* the types ssid, ip_exact, ip_ranges and ip_cidr.
C27_AddThenListed ==
    [][\A network_type \in NetworkTypes, value \in NetworkValues :
          /\ (add_allowed_network(network_type, value) /\ ret' = TRUE)
             => ListedUnder(network_config', network_type, value)
          /\ (remove_allowed_network(network_type, value) /\ ret' = TRUE)
             => ~ListedUnder(network_config', network_type, value)]_vars

\* A quotient lies between 0 and 100.
IsPercentage(q) == q.den > 0 /\ 0 <= q.num /\ q.num <= 100 * q.den

\* C28: after any task insertions, task deletions and progress updates,
\* every get_leaderboard entry and every get_performance_metrics result has
\* 0 <= completed_tasks <= total_tasks and a completion_rate between 0 and
\* 100, and the leaderboard's completed_tasks of a user equals the metrics'.
C28_CountsWithinTotals ==
    \A i \in 1..Len(users) : \A period \in Periods :
        LET entry == Entry(users[i], Len(tasks))
            m == performance_rates(progress, attendance, users[i].email,
                                   period, clock)
        IN /\ 0 <= entry.completed_tasks
           /\ entry.completed_tasks <= entry.total_tasks
           /\ IsPercentage(entry.completion_rate)
           /\ 0 <= m.completed_tasks
           /\ m.completed_tasks <= m.total_tasks
           /\ IsPercentage(m.completion_rate)
           /\ entry.completed_tasks = m.completed_tasks

\* C29: the attendance_rate of get_performance_metrics and of
\* get_attendance_stats lies between 0 and 100, days_present never exceeds
\* the days of the period and days_absent is never negative, weekend
\* check-ins and records on two calendar days of the last 24 hours included.
C29_AttendanceRateBounds ==
    /\ \A period \in Periods :
         LET m == period_attendance(attendance, InternEmail, period, clock)
         IN /\ 0 <= m.attendance_rate[1]
            /\ m.attendance_rate[1] <= 100 * m.attendance_rate[2]
            /\ m.days_present <= days_in_period(clock, period)
    /\ \A days \in StatsDays :
         LET stats == get_attendance_stats(attendance, users, days, clock)
         IN \A i \in 1..Len(stats) :
              /\ 0 <= stats[i].attendance_rate[1]
              /\ stats[i].attendance_rate[1]
                   <= 100 * stats[i].attendance_rate[2]
              /\ stats[i].days_present <= days
              /\ stats[i].days_absent >= 0

\* The timestamps of the intern's records of a status on the day of now.
StampsToday(status) ==
    { attendance[i].timestamp : i \in { j \in 1..Len(attendance) :
        /\ attendance[j].intern_email = InternEmail
        /\ attendance[j].status = status
        /\ DayOf(attendance[j].timestamp) = DayOf(clock) } }

\* C30: whenever get_today_attendance or get_attendance_history reports
\* both a check_in and a check_out, check_in is the day's earliest check-in,
\* check_out its latest check-out, check_in is not after check_out and the
\* duration is not negative, whatever the sequence of log_attendance calls.
C30_CheckInBeforeCheckOut ==
    LET today == get_today_attendance_at(attendance, InternEmail, clock) IN
    /\ (today.check_in # Nothing /\ today.check_out # Nothing) =>
          /\ \A t \in StampsToday("check-in") : today.check_in[1] <= t
          /\ \A t \in StampsToday("check-out") : today.check_out[1] >= t
          /\ today.check_in[1] <= today.check_out[1]
          /\ today.duration[1] >= 0
    /\ \A days \in StatsDays :
         \A r \in get_attendance_history(attendance, InternEmail, days, clock) :
            r.duration # Nothing => r.duration[1] >= 0
====
